---------------------------- MODULE Spec2Model ----------------------------
(***************************************************************************)
(* Hand-pose estimation pipeline of the webcam arcade games.               *)
(*                                                                         *)
(* A camera frame is represented by what OpenCV extracts from it: a list   *)
(* of candidate regions in scan order, each with the contour that          *)
(* findContours would return for it and the values the geometric           *)
(* primitives (contourArea, moments, convexHull, convexityDefects,         *)
(* minAreaRect) return on that contour, together with the sets of regions  *)
(* that are skin coloured, that the background subtractor reports as       *)
(* foreground, and that the caller's face mask leaves eligible.            *)
(*                                                                         *)
(* One process runs one game; the variable pipeline says which one.  The   *)
(* two games with a loop of their own keep their fields in the variable    *)
(* game.  The orientation game is modelled with the coordinates of its     *)
(* ball, targets and obstacles.  Of the physics of the platformer the      *)
(* model keeps the outcomes the handlers test (landing on a platform,      *)
(* falling out of the screen, hitting an obstacle) as choices of the step, *)
(* the landing only while the player moves downward.                       *)
(***************************************************************************)
EXTENDS Integers, Sequences, FiniteSets, TLC

(***************************************************************************)
(* Bounds of the model.                                                    *)
(***************************************************************************)
\* number of pipeline calls in a run of the games
MaxCalls == 6
\* number of process_hand_tracking calls in a run of the fingertip samples
MaxTipCalls == 3
\* number of calls in a run of the contours whose direction block raises
MaxFailureCalls == 3
\* number of calls in a run of the contours on which an unguarded primitive
\* raises
MaxEscapeCalls == 3
\* number of detect_hand calls in a run of the platformer
MaxPlatCalls == 22
\* events queued for one handle_events call
MaxPlatEvents == 2
\* number of update calls in a run of the orientation game
MaxGameUpdates == 19
\* events queued for one iteration of the orientation game
MaxGameEvents == 2
\* updates of a run of the orientation game that have no direction
MaxCoast == 1
\* longest lists of targets and of obstacles
MaxTargets == 6
MaxObstacles == 4
\* number of process_frame calls in a run through the learning phase
MaxLearnCalls == 32
\* longest list of convexity defects in the gesture classification inputs
MaxDefects == 5

(***************************************************************************)
(* Program constants.                                                      *)
(***************************************************************************)
max_positions == 5
frames_to_learn == 30
min_contour_area == 3000
orient_min_area == 3000
max_orientations == 5
finger_min_area == 3000
\* self.jump_cooldown = 20
jump_cooldown_frames == 20
jump_velocity == 15
\* self.gravity = 0.8, in fifths
gravity_fifths == 4
\* HandOrientationGame: self.width, self.height = 800, 600
game_width == 800
game_height == 600
ball_radius == 20
initial_ball_speed == 5
max_ball_speed == 10
spawn_target_delay == 2
spawn_obstacle_delay == 5
initial_targets == 5
initial_obstacles == 3
\* dist_to_top < 50, compared on squared distances
TopRadiusSq == 2500

(***************************************************************************)
(* Points and small helpers.                                               *)
(***************************************************************************)
Pt(x, y) == <<x, y>>

\* (p[0] - q[0]) ** 2 + (p[1] - q[1]) ** 2, the square of the math.sqrt argument
Dist2(p, q) == (p[1] - q[1]) * (p[1] - q[1]) + (p[2] - q[2]) * (p[2] - q[2])

RECURSIVE SumSeq(_)
SumSeq(s) == IF s = <<>> THEN 0 ELSE Head(s) + SumSeq(Tail(s))

\* Python's // on integers: floor division
FloorDiv(a, b) == a \div b

\* int(x / y) for x >= 0, y > 0: truncation of the float quotient
IntDiv(a, b) == a \div b

\* the history that drops its oldest entry one append too late
PushBoundedLate(hist, x, cap) ==
    LET h == Append(hist, x)
    IN  IF Len(h) > cap + 1 THEN Tail(h) ELSE h

\* list.append followed by pop(0) when the list grew beyond cap
PushBounded(hist, x, cap) ==
    LET h == Append(hist, x)
    IN  IF Len(h) > cap THEN Tail(h) ELSE h

(***************************************************************************)
(* Contours.  A contour record carries the point list and the values the   *)
(* OpenCV primitives return for it:                                        *)
(*   pts        the boundary points, in contour order                      *)
(*   area       cv2.contourArea(contour)                                   *)
(*   m00,m10,m01  cv2.moments(contour)                                     *)
(*   hullN      len(cv2.convexHull(contour, returnPoints=False))           *)
(*   defStatus  "error": cv2.convexityDefects raises; "none": it returns   *)
(*              None; "ok": it returns the array defects                   *)
(*   defects    the defect rows as index triples [s, e, f] into pts        *)
(*   hullArea   cv2.contourArea(cv2.convexHull(contour))                   *)
(*   rect       cv2.minAreaRect(contour): angle in degrees, width, height; *)
(*              ok is FALSE when the call raises cv2.error                 *)
(*   raises     "contourArea", "arcLength", "moments" or "convexHull" when *)
(*              that call raises cv2.error on the contour instead of       *)
(*              returning its value; "none" when all four return           *)
(***************************************************************************)
Contour(pts, area, m00, m10, m01, hullN, defStatus, defects, hullArea, rect) ==
    [pts |-> pts, area |-> area, m00 |-> m00, m10 |-> m10, m01 |-> m01,
     hullN |-> hullN, defStatus |-> defStatus, defects |-> defects,
     hullArea |-> hullArea, rect |-> rect, raises |-> "none"]

\* the contour c on which the primitive prim raises
Raising(c, prim) == [c EXCEPT !.raises = prim]

Rect(angle, w, h) == [angle |-> angle, w |-> w, h |-> h, ok |-> TRUE]

\* cv2.minAreaRect raises on the contour
RectFails == [angle |-> 0, w |-> 0, h |-> 0, ok |-> FALSE]

Defect(s, e, f) == [s |-> s, e |-> e, f |-> f]

\* start = tuple(contour[s][0]), end = tuple(contour[e][0]), far = tuple(contour[f][0])
DefStart(c, d) == c.pts[d.s]
DefEnd(c, d) == c.pts[d.e]
DefFar(c, d) == c.pts[d.f]

(***************************************************************************)
(* Double-precision arithmetic.  The code works on Python floats: a side   *)
(* is math.sqrt of an integer, rounded to 53 bits, and b**2, the sum, the  *)
(* difference, the product 2*b*c and the quotient are each rounded again.  *)
(* On an exact right angle and on collinear points the rounded values      *)
(* decide what the code does, so the model computes them with integers.    *)
(* A float near the integer V is written V + E * 2^-53 with an integer E.  *)
(* A number below 2^59 is a pair <<low 28 bits, the bits above>>; a wide   *)
(* integer is a tuple of Limbs digits in base LimbBase, least significant  *)
(* first, and products of tuples are modulo LimbBase^Limbs = 2^84.         *)
(* b**2 is the pow of the C library (glibc 2.36 under CPython 3.11), which *)
(* for most sides is the double nearest the square of b and for some is    *)
(* the double next to it; PowBelow and PowAbove list the squared lengths   *)
(* of the latter kind among the sums of two squares of integers up to 640, *)
(* which covers every side in a 640 x 480 frame.                           *)
(***************************************************************************)
LimbBase == 16384
Limbs == 6
PairBase == LimbBase * LimbBase

\* the element of a one-element set: The({F(x) : x \in {e}}) is F of the
\* value of e
The(S) == CHOOSE x \in S : TRUE

RECURSIVE Log2(_)
Log2(v) == IF v < 2 THEN 0 ELSE 1 + Log2(v \div 2)

RECURSIVE ISqrt(_)
ISqrt(n) ==
    IF n < 2 THEN n
    ELSE The({IF (r + 1) * (r + 1) <= n THEN r + 1 ELSE r : r \in {2 * ISqrt(n \div 4)}})

BigOfInt(n) ==
    <<n % LimbBase, (n \div LimbBase) % LimbBase, n \div PairBase, 0, 0, 0>>

BigOfPair(p) ==
    <<p[1] % LimbBase, p[1] \div LimbBase, p[2] % LimbBase, p[2] \div LimbBase, 0, 0>>

\* the digits of the number whose i-th digit position holds cols[i]
RECURSIVE Carry(_, _, _)
Carry(cols, i, carry) ==
    IF i > Limbs THEN <<>>
    ELSE The({<<v % LimbBase>> \o Carry(cols, i + 1, v \div LimbBase) :
                 v \in {cols[i] + carry}})

RECURSIVE Column(_, _, _, _)
Column(a, b, k, i) ==
    IF i > k THEN 0 ELSE a[i] * b[k + 1 - i] + Column(a, b, k, i + 1)

BigMul(a, b) == Carry([k \in 1..Limbs |-> Column(a, b, k, 1)], 1, 0)

BigAdd(a, b) == Carry([k \in 1..Limbs |-> a[k] + b[k]], 1, 0)

RECURSIVE BigLessFrom(_, _, _)
BigLessFrom(a, b, i) ==
    IF i = 0 THEN FALSE
    ELSE IF a[i] # b[i] THEN a[i] < b[i]
    ELSE BigLessFrom(a, b, i - 1)

BigLess(a, b) == BigLessFrom(a, b, Limbs)

PairScale(p, n) == <<(p[1] * n) % PairBase, p[2] * n + ((p[1] * n) \div PairBase)>>

PairLess(p, q) == p[2] < q[2] \/ (p[2] = q[2] /\ p[1] < q[1])

PairSub(p, q) ==
    IF p[1] >= q[1] THEN <<p[1] - q[1], p[2] - q[2]>>
    ELSE <<p[1] + PairBase - q[1], p[2] - q[2] - 1>>

\* the next bit of a square root, on s = <<root so far, remainder>>
SqrtStep(s) ==
    The({IF PairLess(r4, <<t[1] + 1, t[2]>>) THEN <<r2, r4>>
         ELSE <<<<r2[1] + 1, r2[2]>>, PairSub(r4, <<t[1] + 1, t[2]>>)>> :
            r4 \in {PairScale(s[2], 4)}, r2 \in {PairScale(s[1], 2)},
            t \in {PairScale(s[1], 4)}})

\* n further bits: the first half of them, then the others
RECURSIVE SqrtBits(_, _)
SqrtBits(s, n) ==
    IF n = 0 THEN s
    ELSE IF n = 1 THEN SqrtStep(s)
    ELSE The({SqrtBits(u, n - (n \div 2)) : u \in {SqrtBits(s, n \div 2)}})

\* the exponent of the double math.sqrt(X) = m * 2^-t, 2^52 <= m < 2^53
SqrtScale(X) == 52 - (Log2(X) \div 2)

\* math.sqrt(X) for an integer X >= 1: the mantissa m, the root of X * 4^t
\* rounded to nearest, and the distance of its square from X * 4^t, signed
SqrtMantissa(X) ==
    The({IF PairLess(u[1], u[2])
         THEN [m |-> <<(u[1][1] + 1) % PairBase, u[1][2] + ((u[1][1] + 1) \div PairBase)>>,
               neg |-> FALSE,
               mag |-> PairSub(<<PairScale(u[1], 2)[1] + 1, PairScale(u[1], 2)[2]>>, u[2])]
         ELSE [m |-> u[1], neg |-> u[2] # <<0, 0>>, mag |-> u[2]] :
            u \in {SqrtBits(<<<<r, 0>>, <<X - r * r, 0>>>>, SqrtScale(X)) : r \in {ISqrt(X)}}})

\* the exponent kk of the doubles next to V + n: those just below a power
\* of two lie twice as dense
Exponent(V, below) ==
    The({IF below /\ V = 2^k THEN k - 1 ELSE k : k \in {Log2(V)}})

\* E with V + E * 2^-53 = the double nearest V + n * 2^-(52 + w), a tie to
\* the even one, for an integer V >= 1 and a signed n of at least 2^29
\* times the unit of E
RoundWide(V, n, w) ==
    The({(IF n.neg THEN -1 ELSE 1) * 2^(kk + 1)
            * The({IF rest > 0 \/ (rest = 0 /\ (n.mag[1] > 0 \/ q % 2 = 1)) THEN q + 1 ELSE q :
                      q \in {n.mag[2] \div 2^(w + kk - 28)},
                      rest \in {2 * (n.mag[2] % 2^(w + kk - 28)) - 2^(w + kk - 28)}}) :
            kk \in {Exponent(V, n.neg)}})

\* the same for an integer n in units of 2^-53
RoundInt(V, n) ==
    The({2^(kk + 1) * (IF 2 * (n % 2^(kk + 1)) > 2^(kk + 1)
                          \/ (2 * (n % 2^(kk + 1)) = 2^(kk + 1) /\ (n \div 2^(kk + 1)) % 2 = 1)
                       THEN (n \div 2^(kk + 1)) + 1 ELSE n \div 2^(kk + 1)) :
            kk \in {Exponent(V, n < 0)}})

\* the squared lengths X where pow(math.sqrt(X), 2.0) is the double below
\* the one nearest the square of math.sqrt(X)
PowBelow ==
    {13810, 27613, 33218, 55240, 55562, 55882, 60149, 72477, 110452,
     111537, 126565, 132872, 144853, 146233, 159457, 161597, 190837,
     197234, 210194, 220960, 222248, 223528, 228541, 252905, 254077,
     284105, 353853, 363753, 403177, 428033, 441808, 484345, 522941,
     531488, 553802, 555265, 570757, 579412, 584932, 585845, 605026,
     646388, 684581, 724858}

\* those where it is the double above
PowAbove ==
    {34138, 41693, 46489, 47137, 50066, 59929, 65050, 68645, 121369,
     127881, 136552, 160361, 166772, 170064, 173209, 181274, 185956,
     188548, 196090, 200264, 205754, 209465, 210449, 239716, 240025,
     251653, 255649, 260200, 274580, 277076, 291209, 294370, 298361,
     309313, 314609, 418725, 444773, 474842, 485476, 508538, 511524,
     546208, 561025, 573313, 576665, 593300, 602073, 649501, 657829,
     663109, 679537, 692836, 725096, 754192}

\* math.sqrt(X) ** 2 = X + E * 2^-53: the square of the mantissa, rounded
\* to nearest, and the step that pow is off
SquareOfRoot(X) ==
    IF X = 0 THEN 0
    ELSE The({RoundWide(X, r, 2 * SqrtScale(X) - 52) : r \in {SqrtMantissa(X)}})
            + (IF X \in PowBelow THEN -1 ELSE IF X \in PowAbove THEN 1 ELSE 0)
                 * 2^(Log2(X) + 1)

\* (b**2 + c**2) - a**2 = (B + C - A) + E * 2^-53, before the difference
\* is rounded; where B + C = A its sign decides the comparison of the angle
\* with pi / 2
SquaresDifference(A, B, C) ==
    The({RoundInt(B + C, q[B] + q[C]) - q[A] : q \in {[X \in {A, B, C} |-> SquareOfRoot(X)]}})

\* |b**2 + c**2 - a**2| = |N| + E * 2^-53 where N = B + C - A, N^2 = 4 B C
FlatNumerator(A, B, C) ==
    The({RoundInt(IF B + C < A THEN A - B - C ELSE B + C - A,
                  IF B + C < A THEN -diff ELSE diff) :
            diff \in {SquaresDifference(A, B, C)}})

\* the product of two mantissas modulo 2^56, as the signed number nearest 0
MantissaProduct(a, b) ==
    The({IF v[4] >= LimbBase \div 2
         THEN [neg |-> TRUE,
               mag |-> <<(PairBase - (v[1] + v[2] * LimbBase)) % PairBase,
                         (PairBase - (v[3] + v[4] * LimbBase)
                            - (IF v[1] + v[2] > 0 THEN 1 ELSE 0)) % PairBase>>]
         ELSE [neg |-> FALSE, mag |-> <<v[1] + v[2] * LimbBase, v[3] + v[4] * LimbBase>>] :
            v \in {BigMul(BigOfPair(a), BigOfPair(b))}})

\* 2 * b * c = |N| + E * 2^-53 where N^2 = 4 B C: b * c is |N| / 2 plus the
\* product of the mantissas, which modulo 2^56 is its distance from
\* |N| / 2 * 2^(tB + tC)
FlatDenominator(A, B, C) ==
    The({RoundWide(IF B + C < A THEN A - B - C ELSE B + C - A,
                   MantissaProduct(r[B].m, r[C].m),
                   SqrtScale(B) + SqrtScale(C) - 53) :
            r \in {[X \in {B, C} |-> SqrtMantissa(X)]}})

(***************************************************************************)
(* The far-vertex angle of a defect.  The code takes square roots of the   *)
(* squared side lengths and evaluates                                      *)
(*     math.acos((b**2 + c**2 - a**2) / (2 * b * c));                      *)
(* the model keeps the squared lengths A = a^2, B = b^2, C = c^2.  Away    *)
(* from a right angle and from collinear points the rounding errors are    *)
(* far smaller than the distance to the thresholds, and the tests are      *)
(* those on the integers.                                                  *)
(***************************************************************************)
\* a = sqrt((end - start)^2), squared
SideA2(c, d) == Dist2(DefEnd(c, d), DefStart(c, d))

\* b = sqrt((far - start)^2), squared
SideB2(c, d) == Dist2(DefFar(c, d), DefStart(c, d))

\* c of the gesture classifier: sqrt((end[0]-far[0])^2 + (end[1]-far[1])^2), squared
ClassifierC2(c, d) == Dist2(DefEnd(c, d), DefFar(c, d))

\* numerator of the acos argument: b^2 + c^2 - a^2
CosNum(A, B, C) == B + C - A

\* math.acos raises: ZeroDivisionError when 2*b*c = 0, ValueError when the
\* argument lies outside [-1, 1]: (b^2 + c^2 - a^2)^2 > 4 b^2 c^2, or, when
\* the two are equal, the rounded numerator exceeds the rounded 2*b*c
AcosRaises(A, B, C) ==
    \/ B = 0
    \/ C = 0
    \/ \E N \in {IF B + C < A THEN A - B - C ELSE B + C - A} :
          \E p \in {[i \in {1, 2} |->
                       BigMul(BigOfInt(IF i = 1 THEN N ELSE 2 * B),
                              BigOfInt(IF i = 1 THEN N ELSE 2 * C))]} :
             \/ BigLess(p[2], p[1])
             \/ p[1] = p[2] /\ FlatNumerator(A, B, C) > FlatDenominator(A, B, C)

\* angle <= math.pi / 2, for an angle that acos returned: cosine >= 0; at a
\* right angle the rounded numerator may be negative, and the angle then
\* is the double above math.pi / 2
AngleLeHalfPi(A, B, C) ==
    \/ CosNum(A, B, C) > 0
    \/ CosNum(A, B, C) = 0 /\ SquaresDifference(A, B, C) >= 0

\* angle <= math.pi / 2.5, for an angle that acos returned: with N the
\* numerator, N / (2 sqrt(BC)) >= cos(72 deg) = (sqrt(5) - 1) / 4, that is
\* N >= 0 and N sqrt(BC) >= BC - N^2: N^2 >= BC or 3 N^2 BC >= N^4 + (BC)^2
AngleLeFingerTip(A, B, C) ==
    /\ CosNum(A, B, C) >= 0
    /\ \E s \in {[i \in {1, 2} |->
                     BigMul(BigOfInt(IF i = 1 THEN CosNum(A, B, C) ELSE B),
                            BigOfInt(IF i = 1 THEN CosNum(A, B, C) ELSE C))]} :
          \/ ~BigLess(s[1], s[2])
          \/ \E p \in {[i \in {1, 2, 3} |->
                           BigMul(s[IF i = 3 THEN 2 ELSE 1], s[IF i = 1 THEN 1 ELSE 2])]} :
                ~BigLess(BigMul(BigOfInt(3), p[2]), BigAdd(p[1], p[3]))

(***************************************************************************)
(* SimpleHandDetector.detect_gesture                                       *)
(***************************************************************************)
\* one pass of the counting loop body: try acos, except: continue
CountsAsGap(c, d) ==
    LET A == SideA2(c, d)
        B == SideB2(c, d)
        C == ClassifierC2(c, d)
    IN  /\ ~AcosRaises(A, B, C)
        /\ AngleLeHalfPi(A, B, C)

RECURSIVE CountGaps(_, _)
CountGaps(c, ds) ==
    IF ds = <<>> THEN 0
    ELSE (IF CountsAsGap(c, Head(ds)) THEN 1 ELSE 0) + CountGaps(c, Tail(ds))

\* finger_count after the loop over defects
FingerCount(c) == CountGaps(c, c.defects)

\* solidity = float(area) / hull_area; solidity > 0.9
SolidityAbove(c) == 10 * c.area > 9 * c.hullArea

\* the chain with open_palm taken from three gaps on
GestureOfCountFromThree(n, c) ==
    IF n = 0 THEN [raised |-> FALSE, gesture |-> "closed_fist"]
    ELSE IF n = 1 THEN [raised |-> FALSE, gesture |-> "pointing"]
    ELSE IF n = 2 THEN [raised |-> FALSE, gesture |-> "victory"]
    ELSE [raised |-> FALSE, gesture |-> "open_palm"]

\* the if/elif chain on finger_count; the division raises when hull_area is 0
GestureOfCount(n, c) ==
    IF n = 0 THEN [raised |-> FALSE, gesture |-> "closed_fist"]
    ELSE IF n = 1 THEN [raised |-> FALSE, gesture |-> "pointing"]
    ELSE IF n = 2 THEN [raised |-> FALSE, gesture |-> "victory"]
    ELSE IF n >= 4 THEN [raised |-> FALSE, gesture |-> "open_palm"]
    ELSE IF c.hullArea = 0 THEN [raised |-> TRUE, gesture |-> "unknown"]
    ELSE IF SolidityAbove(c) THEN [raised |-> FALSE, gesture |-> "thumbs_up"]
    ELSE [raised |-> FALSE, gesture |-> "unknown"]

\* detect_gesture without the test of len(hull)
DetectGestureNoHullTest(c) ==
    IF c.raises \in {"contourArea", "arcLength", "convexHull"}
    THEN [raised |-> TRUE, gesture |-> "unknown"]
    ELSE IF c.defStatus = "error" THEN [raised |-> FALSE, gesture |-> "unknown"]
    ELSE IF c.defStatus = "none" THEN [raised |-> FALSE, gesture |-> "closed_fist"]
    ELSE GestureOfCount(FingerCount(c), c)

\* detect_gesture(contour): the label it stores in current_gesture, and
\* whether an exception leaves the method.  cv2.contourArea (line 188),
\* cv2.arcLength (line 189) and cv2.convexHull (line 192) are called outside
\* every try
DetectGesture(c) ==
    IF c.raises \in {"contourArea", "arcLength", "convexHull"}
    THEN [raised |-> TRUE, gesture |-> "unknown"]
    ELSE IF c.hullN < 3 THEN [raised |-> FALSE, gesture |-> "unknown"]
    ELSE IF c.defStatus = "error" THEN [raised |-> FALSE, gesture |-> "unknown"]
    ELSE IF c.defStatus = "none" THEN [raised |-> FALSE, gesture |-> "closed_fist"]
    ELSE GestureOfCount(FingerCount(c), c)

(***************************************************************************)
(* Frames.                                                                 *)
(*   img     FALSE for a null frame (None)                                 *)
(*   blob    the candidate regions in scan order, each with its contour    *)
(*   skin    the regions inside the HSV skin range (cv2.inRange)           *)
(*   motion  the regions the background subtractor reports as foreground   *)
(*           when it is asked (after open, close and threshold)            *)
(*   face    the caller's face_mask: given or None, and the regions where  *)
(*           it is 255                                                     *)
(* The morphological clean-up keeps a region or removes it as a whole; the *)
(* regions of a frame are those that survive it.                           *)
(***************************************************************************)
NoFace == [given |-> FALSE, on |-> {}]
FaceMask(on) == [given |-> TRUE, on |-> on]

Frame(blob, skin, motion, face) ==
    [img |-> TRUE, blob |-> blob, skin |-> skin, motion |-> motion, face |-> face]

NullFrame == [img |-> FALSE, blob |-> <<>>, skin |-> {}, motion |-> {}, face |-> NoFace]

\* the sample contour: a hand outline with three defects' worth of points
HandPts == << Pt(20, 0), Pt(26, 2), Pt(23, 20),
              Pt(0, 30), Pt(16, 30), Pt(8, 40),
              Pt(30, 30), Pt(46, 30), Pt(38, 32) >>

\* a narrow valley (about 18 degrees at the far point)
Sharp == Defect(1, 2, 3)
\* a valley between 72 and 90 degrees
Wide == Defect(4, 5, 6)
\* a shallow dent (more than 90 degrees)
Obtuse == Defect(7, 8, 9)
\* far point coincides with start: b = 0
Degenerate == Defect(1, 2, 1)

DefectKinds == {Sharp, Wide, Obtuse, Degenerate}

Rep(d, n) == [i \in 1..n |-> d]

\* a hand-sized contour with centroid (cx, cy): m10/m00 = cx + 1/2
Hand(cx, cy, area, defStatus, defects, hullArea) ==
    Contour(HandPts, area, area, cx * area + area \div 2, cy * area + area \div 2,
            4, defStatus, defects, hullArea, Rect(30, 60, 40))

Fist == Hand(20, 25, 5000, "none", <<>>, 5200)
Pointing == Hand(27, 22, 5000, "ok", <<Sharp>>, 6000)
Victory == Hand(20, 25, 5000, "ok", <<Sharp, Obtuse, Wide>>, 6500)
ThumbsUp == Hand(20, 25, 5000, "ok", <<Sharp, Sharp, Wide>>, 5500)
ThreeLoose == Hand(20, 25, 5000, "ok", <<Sharp, Degenerate, Sharp, Wide>>, 7000)
OpenPalm == Hand(27, 22, 5000, "ok", Rep(Sharp, 4), 8000)
DefectsFail == Hand(20, 25, 5000, "error", <<>>, 5200)
Below == Hand(20, 25, 2999, "none", <<>>, 3100)
AtThreshold == Hand(20, 25, 3000, "none", <<>>, 3100)
Above == Hand(27, 22, 3001, "none", <<>>, 3100)
\* a selected contour whose moments give m00 = 0
ZeroMoment ==
    Contour(HandPts, 5000, 0, 0, 0, 4, "none", <<>>, 5200, Rect(30, 60, 40))
\* a hull with two indices
FlatHull ==
    Contour(HandPts, 5000, 5000, 20 * 5000, 25 * 5000, 2, "none", <<>>, 5200,
            Rect(0, 80, 1))

(***************************************************************************)
(* Segmentation and contour selection of SimpleHandDetector.process_frame  *)
(***************************************************************************)
\* the combination that leaves the face mask out
SegmentMaskNoFace(f, useMotion) ==
    IF useMotion THEN f.skin \cap f.motion ELSE f.skin

\* mask = skin_mask AND motion_mask when motion_mask is not None, else skin_mask;
\* then AND face_mask when one is given
SegmentMask(f, useMotion) ==
    LET m == IF useMotion THEN f.skin \cap f.motion ELSE f.skin
    IN  IF f.face.given THEN m \cap f.face.on ELSE m

\* cv2.findContours on the cleaned mask: the regions of the mask, in scan order
RECURSIVE ScanFrom(_, _, _)
ScanFrom(i, n, mask) ==
    IF i > n THEN <<>>
    ELSE (IF i \in mask THEN <<i>> ELSE <<>>) \o ScanFrom(i + 1, n, mask)

FindContours(f, mask) == ScanFrom(1, Len(f.blob), mask)

\* keep(a): the area test of the list comprehension
RECURSIVE FilterArea(_, _)
FilterArea(f, cs) ==
    IF cs = <<>> THEN <<>>
    ELSE (IF f.blob[Head(cs)].area > min_contour_area THEN <<Head(cs)>> ELSE <<>>)
         \o FilterArea(f, Tail(cs))

\* the list comprehension with the comparison turned around
RECURSIVE FilterAreaBelow(_, _)
FilterAreaBelow(f, cs) ==
    IF cs = <<>> THEN <<>>
    ELSE (IF f.blob[Head(cs)].area < min_contour_area THEN <<Head(cs)>> ELSE <<>>)
         \o FilterAreaBelow(f, Tail(cs))

ValidContoursBelow(f, cs) == FilterAreaBelow(f, cs)

\* valid_contours = [c for c in contours if cv2.contourArea(c) > self.min_contour_area]
ValidContours(f, cs) == FilterArea(f, cs)

\* the maximum that keeps the last of several largest elements
RECURSIVE MaxFromLast(_, _, _)
MaxFromLast(f, best, cs) ==
    IF cs = <<>> THEN best
    ELSE MaxFromLast(f, IF f.blob[Head(cs)].area >= f.blob[best].area
                        THEN Head(cs) ELSE best, Tail(cs))

\* max(cs, key=cv2.contourArea) on a non-empty list: the first element of
\* maximal area
RECURSIVE MaxFrom(_, _, _)
MaxFrom(f, best, cs) ==
    IF cs = <<>> THEN best
    ELSE MaxFrom(f, IF f.blob[Head(cs)].area > f.blob[best].area
                    THEN Head(cs) ELSE best, Tail(cs))

MaxContour(f, cs) == MaxFrom(f, Head(cs), Tail(cs))

\* the average rounded to the nearest integer instead of down
AveragePositionRounded(hist) ==
    Pt((2 * SumSeq([i \in 1..Len(hist) |-> hist[i][1]]) + Len(hist))
           \div (2 * Len(hist)),
       (2 * SumSeq([i \in 1..Len(hist) |-> hist[i][2]]) + Len(hist))
           \div (2 * Len(hist)))

\* (sum(pos[0]) // len, sum(pos[1]) // len)
AveragePosition(hist) ==
    Pt(FloorDiv(SumSeq([i \in 1..Len(hist) |-> hist[i][1]]), Len(hist)),
       FloorDiv(SumSeq([i \in 1..Len(hist) |-> hist[i][2]]), Len(hist)))

\* hand_center = (int(m10 / m00), int(m01 / m00))
RawCentroid(c) == Pt(IntDiv(c.m10, c.m00), IntDiv(c.m01, c.m00))

NoCenter == <<>>
NoContour == 0

\* the detector's fields
Detector(fc, has, prev, gesture) ==
    [frame_count |-> fc, has_bg_model |-> has, prev_positions |-> prev,
     current_gesture |-> gesture]

\* what one call leaves behind: the fields, the returned pair, the centroid
\* it appended to prev_positions (raw; none when it appended nothing), and
\* how the mask was formed
CallResult(raised, det, center, raw, contour, mask, useMotion, applies) ==
    [raised |-> raised, det |-> det, center |-> center, raw |-> raw,
     contour |-> contour, mask |-> mask, usedMotion |-> useMotion,
     applies |-> applies]

\* cv2.contourArea raises on one of the contours cs of the frame
AreaRaises(f, cs) == \E i \in 1..Len(cs) : f.blob[cs[i]].raises = "contourArea"

\* has_bg_model set by the call after the one that completes the count
ModelReadyLate(det) ==
    \/ det.has_bg_model
    \/ det.frame_count >= frames_to_learn

\* the learning branch: whether has_bg_model is True when the motion mask is
\* decided, for the frame_count the call started with
ModelReady(det) ==
    \/ det.has_bg_model
    \/ /\ det.frame_count < frames_to_learn
       /\ det.frame_count + 1 = frames_to_learn

\* process_frame that resets the gesture label when it finds no hand
SimpleProcessFrameResets(f, det) ==
    IF ~f.img
    THEN CallResult(TRUE, det, NoCenter, NoCenter, NoContour, {}, FALSE, 0)
    ELSE
    LET learning == det.frame_count < frames_to_learn
        fc == IF learning THEN det.frame_count + 1 ELSE det.frame_count
        has == ModelReady(det)
        applies == (IF learning THEN 1 ELSE 0) + (IF has THEN 1 ELSE 0)
        mask == SegmentMask(f, has)
        contours == FindContours(f, mask)
        valid == ValidContours(f, contours)
        d0 == Detector(fc, has, det.prev_positions, det.current_gesture)
        d1 == Detector(fc, has, det.prev_positions, "unknown")
    IN  IF AreaRaises(f, contours)
        THEN CallResult(TRUE, d0, NoCenter, NoCenter, NoContour, mask, has, applies)
        ELSE IF contours = <<>> \/ valid = <<>>
        THEN CallResult(FALSE, d1, NoCenter, NoCenter, NoContour, mask, has, applies)
        ELSE
        LET k == MaxContour(f, valid)
            c == f.blob[k]
        IN  IF c.raises = "moments"
            THEN CallResult(TRUE, d0, NoCenter, NoCenter, NoContour, mask, has,
                            applies)
            ELSE IF c.m00 = 0
            THEN CallResult(FALSE, d1, NoCenter, NoCenter, NoContour, mask, has,
                            applies)
            ELSE
            LET prev == PushBounded(det.prev_positions, RawCentroid(c), max_positions)
                g == DetectGesture(c)
                d2 == Detector(fc, has, prev,
                               IF g.raised THEN det.current_gesture ELSE g.gesture)
            IN  IF g.raised
                THEN CallResult(TRUE, d2, NoCenter, RawCentroid(c), NoContour, mask, has,
                                applies)
                ELSE CallResult(FALSE, d2, AveragePosition(prev), RawCentroid(c), k,
                                mask, has, applies)

\* SimpleHandDetector.process_frame(frame, face_mask) on detector fields det.
\* An exception that leaves detect_gesture leaves process_frame too, after
\* the centroid was appended to prev_positions
SimpleProcessFrame(f, det) ==
    IF ~f.img
    THEN \* frame.copy() on None
         CallResult(TRUE, det, NoCenter, NoCenter, NoContour, {}, FALSE, 0)
    ELSE
    LET learning == det.frame_count < frames_to_learn
        fc == IF learning THEN det.frame_count + 1 ELSE det.frame_count
        has == ModelReady(det)
        applies == (IF learning THEN 1 ELSE 0) + (IF has THEN 1 ELSE 0)
        mask == SegmentMask(f, has)
        contours == FindContours(f, mask)
        valid == ValidContours(f, contours)
        d1 == Detector(fc, has, det.prev_positions, det.current_gesture)
    IN  IF AreaRaises(f, contours)
        THEN \* cv2.contourArea raises in the list comprehension (line 129)
             CallResult(TRUE, d1, NoCenter, NoCenter, NoContour, mask, has, applies)
        ELSE IF contours = <<>> \/ valid = <<>>
        THEN CallResult(FALSE, d1, NoCenter, NoCenter, NoContour, mask, has, applies)
        ELSE
        LET k == MaxContour(f, valid)
            c == f.blob[k]
        IN  IF c.raises = "moments"
            THEN \* cv2.moments raises (line 140)
                 CallResult(TRUE, d1, NoCenter, NoCenter, NoContour, mask, has,
                            applies)
            ELSE IF c.m00 = 0
            THEN CallResult(FALSE, d1, NoCenter, NoCenter, NoContour, mask, has,
                            applies)
            ELSE
            LET prev == PushBounded(det.prev_positions, RawCentroid(c), max_positions)
                g == DetectGesture(c)
                d2 == Detector(fc, has, prev,
                               IF g.raised THEN det.current_gesture ELSE g.gesture)
            IN  IF g.raised
                THEN CallResult(TRUE, d2, NoCenter, RawCentroid(c), NoContour, mask, has,
                                applies)
                ELSE CallResult(FALSE, d2, AveragePosition(prev), RawCentroid(c), k,
                                mask, has, applies)

(***************************************************************************)
(* HandOrientationDetector                                                 *)
(***************************************************************************)
\* a direction output: None, the unit vector along (a, b) (normalised by the
\* code), or the unit vector (cos, sin) of the angle a / b degrees
NoDirection == [kind |-> "none", a |-> 0, b |-> 0]
VecDirection(dx, dy) == [kind |-> "vec", a |-> dx, b |-> dy]
DegDirection(num, den) == [kind |-> "deg", a |-> num, b |-> den]

\* angle = rect[2]; if rect[1][0] < rect[1][1]: angle += 90
RectAngle(r) == IF r.w < r.h THEN r.angle + 90 ELSE r.angle

\* the angle left as cv2.minAreaRect gave it
To360Never(angle) == angle

\* if angle < 0: angle += 360
To360(angle) == IF angle < 0 THEN angle + 360 ELSE angle

\* update_direction on the angle num / den
DirectionName(num, den) ==
    IF num > 315 * den \/ num < 45 * den THEN "RIGHT"
    ELSE IF 45 * den <= num /\ num < 135 * den THEN "DOWN"
    ELSE IF 135 * den <= num /\ num < 225 * den THEN "LEFT"
    ELSE "UP"

\* the detector's fields; current_angle is the fraction angle_num / angle_den
Orientation(prev, num, den, name) ==
    [prev_orientations |-> prev, angle_num |-> num, angle_den |-> den,
     current_direction |-> name]

OrientResult(raised, det, center, contour, direction) ==
    [raised |-> raised, det |-> det, center |-> center, contour |-> contour,
     direction |-> direction]

\* calculate_orientation that goes on with the angle of a failed rectangle
CalculateOrientationUnchecked(c, det) ==
    LET angle == To360(RectAngle(c.rect))
        prev == PushBounded(det.prev_orientations, angle, max_orientations)
        num == SumSeq(prev)
        den == Len(prev)
    IN  [det |-> Orientation(prev, num, den, DirectionName(num, den)),
         direction |-> DegDirection(num, den)]

\* calculate_orientation(contour, center, frame): the fields and the returned
\* direction; an exception in the try block (cv2.minAreaRect is its first
\* statement) returns None with the fields untouched
CalculateOrientation(c, det) ==
    IF ~c.rect.ok
    THEN [det |-> det, direction |-> NoDirection]
    ELSE
    LET angle == To360(RectAngle(c.rect))
        prev == PushBounded(det.prev_orientations, angle, max_orientations)
        num == SumSeq(prev)
        den == Len(prev)
    IN  [det |-> Orientation(prev, num, den, DirectionName(num, den)),
         direction |-> DegDirection(num, den)]

\* the mask of the orientation detector: skin range, AND face_mask when given
OrientMask(f) == IF f.face.given THEN f.skin \cap f.face.on ELSE f.skin

\* process_frame that clears the orientation state when it finds no hand
OrientProcessFrameForgets(f, det) ==
    LET cleared == Orientation(<<>>, 0, 1, "unknown")
    IN  IF ~f.img
        THEN OrientResult(TRUE, det, NoCenter, NoContour, NoDirection)
        ELSE
        LET contours == FindContours(f, OrientMask(f))
        IN  IF AreaRaises(f, contours)
            THEN OrientResult(TRUE, det, NoCenter, NoContour, NoDirection)
            ELSE IF contours = <<>>
            THEN OrientResult(FALSE, cleared, NoCenter, NoContour, NoDirection)
            ELSE
            LET k == MaxContour(f, contours)
                c == f.blob[k]
            IN  IF c.area >= orient_min_area /\ c.raises = "moments"
                THEN OrientResult(TRUE, det, NoCenter, NoContour, NoDirection)
                ELSE IF c.area < orient_min_area \/ c.m00 = 0
                THEN OrientResult(FALSE, cleared, NoCenter, NoContour, NoDirection)
                ELSE
                LET o == CalculateOrientation(c, det)
                IN  OrientResult(FALSE, o.det, RawCentroid(c), k, o.direction)

\* process_frame without the test of M["m00"]: the centroid division raises
OrientProcessFrameNoMomentTest(f, det) ==
    IF ~f.img
    THEN OrientResult(TRUE, det, NoCenter, NoContour, NoDirection)
    ELSE
    LET contours == FindContours(f, OrientMask(f))
    IN  IF AreaRaises(f, contours)
        THEN OrientResult(TRUE, det, NoCenter, NoContour, NoDirection)
        ELSE IF contours = <<>>
        THEN OrientResult(FALSE, det, NoCenter, NoContour, NoDirection)
        ELSE
        LET k == MaxContour(f, contours)
            c == f.blob[k]
        IN  IF c.area < orient_min_area
            THEN OrientResult(FALSE, det, NoCenter, NoContour, NoDirection)
            ELSE IF c.raises = "moments" \/ c.m00 = 0
            THEN OrientResult(TRUE, det, NoCenter, NoContour, NoDirection)
            ELSE
            LET o == CalculateOrientation(c, det)
            IN  OrientResult(FALSE, o.det, RawCentroid(c), k, o.direction)

\* HandOrientationDetector.process_frame(frame, face_mask)
OrientProcessFrame(f, det) ==
    IF ~f.img
    THEN \* frame.copy() on None
         OrientResult(TRUE, det, NoCenter, NoContour, NoDirection)
    ELSE
    LET contours == FindContours(f, OrientMask(f))
    IN  IF AreaRaises(f, contours)
        THEN \* cv2.contourArea raises as the key of max (line 71)
             OrientResult(TRUE, det, NoCenter, NoContour, NoDirection)
        ELSE IF contours = <<>>
        THEN OrientResult(FALSE, det, NoCenter, NoContour, NoDirection)
        ELSE
        LET k == MaxContour(f, contours)
            c == f.blob[k]
        IN  IF c.area >= orient_min_area /\ c.raises = "moments"
            THEN \* cv2.moments raises (line 81)
                 OrientResult(TRUE, det, NoCenter, NoContour, NoDirection)
            ELSE IF c.area < orient_min_area \/ c.m00 = 0
            THEN OrientResult(FALSE, det, NoCenter, NoContour, NoDirection)
            ELSE
            LET o == CalculateOrientation(c, det)
            IN  OrientResult(FALSE, o.det, RawCentroid(c), k, o.direction)

(***************************************************************************)
(* FingerPointerGame.process_hand_tracking                                 *)
(***************************************************************************)
\* index of the first minimum / maximum of coordinate j (numpy argmin, argmax)
RECURSIVE ArgBest(_, _, _, _, _)
ArgBest(pts, j, sign, best, i) ==
    IF i > Len(pts) THEN best
    ELSE ArgBest(pts, j, sign,
                 IF sign * pts[i][j] > sign * pts[best][j] THEN i ELSE best, i + 1)

ArgMin(pts, j) == ArgBest(pts, j, -1, 1, 2)
ArgMax(pts, j) == ArgBest(pts, j, 1, 1, 2)

ExtremeTop(c) == c.pts[ArgMin(c.pts, 2)]
ExtremeBottom(c) == c.pts[ArgMax(c.pts, 2)]
ExtremeLeft(c) == c.pts[ArgMin(c.pts, 1)]
ExtremeRight(c) == c.pts[ArgMax(c.pts, 1)]

\* c of the fingertip estimator:
\* sqrt((end[0] - far[0]) ** 2 + (end[1] - far[0]) ** 2), squared
EstimatorC2(c, d) ==
    LET e == DefEnd(c, d)
        f == DefFar(c, d)
    IN  (e[1] - f[1]) * (e[1] - f[1]) + (e[2] - f[1]) * (e[2] - f[1])

\* try: angle = acos(...) except: angle = pi; then angle <= pi / 2.5
PassesFingerAngle(c, d) ==
    LET A == SideA2(c, d)
        B == SideB2(c, d)
        C == EstimatorC2(c, d)
    IN  /\ ~AcosRaises(A, B, C)
        /\ AngleLeFingerTip(A, B, C)

\* the points one defect appends to finger_points
DefectCandidates(c, d) ==
    IF PassesFingerAngle(c, d)
    THEN (IF Dist2(DefStart(c, d), ExtremeTop(c)) < TopRadiusSq
          THEN <<DefStart(c, d)>> ELSE <<>>)
         \o (IF Dist2(DefEnd(c, d), ExtremeTop(c)) < TopRadiusSq
             THEN <<DefEnd(c, d)>> ELSE <<>>)
    ELSE <<>>

RECURSIVE CollectCandidates(_, _)
CollectCandidates(c, ds) ==
    IF ds = <<>> THEN <<>>
    ELSE DefectCandidates(c, Head(ds)) \o CollectCandidates(c, Tail(ds))

\* the list used when finger_points is empty
ExtremeCandidates(c) == <<ExtremeTop(c), ExtremeRight(c), ExtremeLeft(c)>>

\* finger_points after the loop and the fallback
FingerPoints(c) ==
    LET found == CollectCandidates(c, c.defects)
    IN  IF found = <<>> THEN ExtremeCandidates(c) ELSE found

\* the loop that also moves on to a point at the same distance
RECURSIVE FarthestLast(_, _, _, _)
FarthestLast(center, cands, maxd, tip) ==
    IF cands = <<>> THEN tip
    ELSE IF Dist2(Head(cands), center) >= maxd
         THEN FarthestLast(center, Tail(cands), Dist2(Head(cands), center),
                           Head(cands))
         ELSE FarthestLast(center, Tail(cands), maxd, tip)

\* the loop over finger_points: fingertip is None (<<>>) until a point lies
\* farther from the centre than max_dist, which starts at 0
RECURSIVE Farthest(_, _, _, _)
Farthest(center, cands, maxd, tip) ==
    IF cands = <<>> THEN tip
    ELSE IF Dist2(Head(cands), center) > maxd
         THEN Farthest(center, Tail(cands), Dist2(Head(cands), center), Head(cands))
         ELSE Farthest(center, Tail(cands), maxd, tip)

Fingertip(center, cands) == Farthest(center, cands, 0, <<>>)

\* Strategy A on defects that were computed: the direction, or None
StrategyA(c, center) ==
    LET tip == Fingertip(center, FingerPoints(c))
    IN  IF tip = <<>> THEN NoDirection
        ELSE IF Dist2(tip, center) > 0
             THEN VecDirection(tip[1] - center[1], tip[2] - center[2])
             ELSE NoDirection

\* Strategy B: the rotated bounding box; cv2.minAreaRect raising leaves the
\* try block with direction still None
StrategyB(c) ==
    IF c.rect.ok THEN DegDirection(RectAngle(c.rect), 1) ELSE NoDirection

\* what the direction block did: stratA is "skipped" (block not entered),
\* "hull" (fewer than 3 hull indices), "nodefects" (defects is None), "error"
\* (cv2.convexityDefects raised), "nodir" (candidates gave no direction) or
\* "dir"; triedB says whether cv2.minAreaRect was called
FingerObs(stratA, triedB, cands, cSq, direction) ==
    [stratA |-> stratA, triedB |-> triedB, cands |-> cands, cSq |-> cSq,
     direction |-> direction]

\* the squared c the loop over defects computed for each defect row
EstimatorSides(c) == [i \in 1..Len(c.defects) |-> EstimatorC2(c, c.defects[i])]

\* the try block of process_hand_tracking for contour c and the smoothed
\* centre; an exception of cv2.contourArea, cv2.convexHull or
\* cv2.convexityDefects in it ends in the handler, which prints
DirectionBlock(c, center) ==
    IF c.raises = "contourArea"
    THEN FingerObs("error", FALSE, <<>>, <<>>, NoDirection)
    ELSE IF ~(c.area > finger_min_area)
    THEN FingerObs("skipped", FALSE, <<>>, <<>>, NoDirection)
    ELSE IF c.raises = "convexHull"
    THEN FingerObs("error", FALSE, <<>>, <<>>, NoDirection)
    ELSE IF c.hullN < 3
    THEN FingerObs("hull", TRUE, <<>>, <<>>, StrategyB(c))
    ELSE IF c.defStatus = "error"
    THEN FingerObs("error", FALSE, <<>>, <<>>, NoDirection)
    ELSE IF c.defStatus = "none"
    THEN FingerObs("nodefects", TRUE, <<>>, <<>>, StrategyB(c))
    ELSE LET a == StrategyA(c, center)
         IN  IF a = NoDirection
             THEN FingerObs("nodir", TRUE, FingerPoints(c), EstimatorSides(c),
                            StrategyB(c))
             ELSE FingerObs("dir", FALSE, FingerPoints(c), EstimatorSides(c), a)

\* face_mask = np.ones(frame.shape[:2]) * 255
FullFace(f) == [f EXCEPT !.face = FaceMask(1..Len(f.blob))]

(***************************************************************************)
(* The frames each pipeline is driven with.                                *)
(***************************************************************************)
\* a wrist that reaches lower than the palm is wide: the bottommost point
\* is the contour point farthest from the centre
LongWristPts == [HandPts EXCEPT ![6] = Pt(8, 58)]

Shallow == Hand(20, 25, 5000, "ok", <<Obtuse>>, 5300)
LongWrist ==
    Contour(LongWristPts, 5000, 5000, 20 * 5000, 25 * 5000, 4, "ok", <<Obtuse>>,
            5300, Rect(30, 40, 60))
\* the estimator's acos raises on this narrow valley
Narrow == Hand(20, 25, 5000, "ok", <<Defect(1, 2, 6)>>, 5600)

\* one skin-coloured region that the background subtractor sees as foreground
OneRegion(c) == Frame(<<c>>, {1}, {1}, NoFace)

\* a frame without any skin-coloured region
Empty == Frame(<<Fist>>, {}, {}, NoFace)

SimpleContours ==
    {Fist, Pointing, ThumbsUp, DefectsFail, Below, AtThreshold, Above, ZeroMoment}

SimpleFrames ==
    {OneRegion(c) : c \in SimpleContours}
    \cup {Frame(<<Above, Fist>>, {1, 2}, {1, 2}, FaceMask({1, 2})), Empty, NullFrame}

\* rotated rectangles of the orientation samples: angles 350, 10 and 120
Turned(r) == [Fist EXCEPT !.rect = r]

OrientContours ==
    {Turned(Rect(-10, 60, 40)), Turned(Rect(10, 60, 40)), Turned(Rect(30, 40, 60)),
     Below, AtThreshold, Above, ZeroMoment}

OrientFrames ==
    {OneRegion(c) : c \in OrientContours}
    \cup {Frame(<<Fist, Turned(Rect(10, 60, 40))>>, {1, 2}, {1, 2}, FaceMask({2})),
          Empty, NullFrame}

FingerContours ==
    {Fist, Pointing, FlatHull, DefectsFail, Shallow, LongWrist, Narrow, Below}

FingerFrames == {OneRegion(c) : c \in FingerContours}

\* the learning phase: two hand-sized regions with the same centroid under
\* combinations of the three masks
LearnFrames ==
    {Frame(<<Fist, Victory>>, sk, mo, fa) :
        sk \in {{1, 2}, {2}}, mo \in {{1, 2}, {1}, {}},
        fa \in {NoFace, FaceMask({1})}}

Pipelines == {"simple", "orientation", "finger"}

(***************************************************************************)
(* State.                                                                  *)
(***************************************************************************)
VARIABLES
    pipeline,           \* which pipeline this process runs
    frame_count,        \* SimpleHandDetector
    has_bg_model,
    prev_positions,
    current_gesture,
    prev_orientations,  \* HandOrientationDetector
    current_angle,      \* <<numerator, denominator>> of the average
    current_direction,
    calls,              \* number of pipeline calls made so far
    lastFrame,          \* the frame of the most recent call
    outcome,            \* "idle", "returned", "raised", or "no_frame" when the
                        \* camera gave no frame to process
    result,             \* what the most recent call returned
    seg,                \* how the most recent call formed its mask
    fp,                 \* what the direction block of the most recent call did
    game,               \* PlatformerGame, HandOrientationGame
    observed            \* per call of the run: the raw centroid (simple, finger) or raw
                        \* angle (orientation) it computed, or none

simpleVars == <<frame_count, has_bg_model, prev_positions, current_gesture>>
orientVars == <<prev_orientations, current_angle, current_direction>>
vars == <<pipeline, simpleVars, orientVars, calls, lastFrame, outcome, result,
          seg, fp, observed, game>>

Result(center, contour, direction) ==
    [center |-> center, contour |-> contour, direction |-> direction]

NoResult == Result(NoCenter, NoContour, NoDirection)

Seg(mask, usedMotion, applies) ==
    [mask |-> mask, usedMotion |-> usedMotion, applies |-> applies]

NoSeg == Seg({}, FALSE, 0)
NoObs == FingerObs("skipped", FALSE, <<>>, <<>>, NoDirection)
\* a process that runs a detector on its own
NoGame == [kind |-> "none"]

\* SimpleHandDetector.__init__, HandOrientationDetector.__init__
Fresh ==
    /\ frame_count = 0
    /\ has_bg_model = FALSE
    /\ prev_positions = <<>>
    /\ current_gesture = "unknown"
    /\ prev_orientations = <<>>
    /\ current_angle = <<0, 1>>
    /\ current_direction = "unknown"
    /\ calls = 0
    /\ outcome = "idle"
    /\ result = NoResult
    /\ seg = NoSeg
    /\ fp = NoObs
    /\ observed = <<>>
    /\ game = NoGame

Init ==
    /\ pipeline \in Pipelines
    /\ lastFrame = NullFrame
    /\ Fresh

CurrentDetector ==
    Detector(frame_count, has_bg_model, prev_positions, current_gesture)

CurrentOrientation ==
    Orientation(prev_orientations, current_angle[1], current_angle[2],
                current_direction)

StoreDetector(det) ==
    /\ frame_count' = det.frame_count
    /\ has_bg_model' = det.has_bg_model
    /\ prev_positions' = det.prev_positions
    /\ current_gesture' = det.current_gesture

\* a client calls SimpleHandDetector.process_frame(f, face_mask)
SimpleStep(f) ==
    /\ pipeline = "simple"
    /\ \E r \in {SimpleProcessFrame(f, CurrentDetector)} :
           /\ StoreDetector(r.det)
           /\ outcome' = IF r.raised THEN "raised" ELSE "returned"
           /\ result' = Result(r.center, r.contour, NoDirection)
           /\ seg' = Seg(r.mask, r.usedMotion, r.applies)
    /\ calls' = calls + 1
    /\ lastFrame' = f
    /\ UNCHANGED <<pipeline, orientVars, fp, game>>

\* the raw centroid a call appended to prev_positions: hand_center before
\* smoothing, or none when the call appended nothing
Observation(r) == r.raw

SimpleCall(f) ==
    /\ calls < MaxCalls
    /\ SimpleStep(f)
    /\ observed' = Append(observed,
                          Observation(SimpleProcessFrame(f, CurrentDetector)))

\* the raw angle a call appended to prev_orientations, as a one-element
\* tuple, or none when the call got to no orientation
AngleObservation(f, r) ==
    IF r.raised \/ r.contour = NoContour \/ r.direction = NoDirection THEN NoCenter
    ELSE <<To360(RectAngle(f.blob[r.contour].rect))>>

\* a client calls HandOrientationDetector.process_frame(f, face_mask)
OrientCall(f) ==
    /\ pipeline = "orientation"
    /\ calls < MaxCalls
    /\ \E r \in {OrientProcessFrame(f, CurrentOrientation)} :
           /\ prev_orientations' = r.det.prev_orientations
           /\ current_angle' = <<r.det.angle_num, r.det.angle_den>>
           /\ current_direction' = r.det.current_direction
           /\ outcome' = IF r.raised THEN "raised" ELSE "returned"
           /\ result' = Result(r.center, r.contour, r.direction)
           /\ observed' = Append(observed, AngleObservation(f, r))
    /\ calls' = calls + 1
    /\ lastFrame' = f
    /\ UNCHANGED <<pipeline, simpleVars, seg, fp, game>>

\* FingerPointerGame.process_hand_tracking on a frame the camera delivered
FingerCall(f) ==
    /\ pipeline = "finger"
    /\ calls < MaxCalls
    /\ \E r \in {SimpleProcessFrame(FullFace(f), CurrentDetector)} :
       \E o \in {IF ~r.raised /\ r.center # NoCenter /\ r.contour # NoContour
                 THEN DirectionBlock(f.blob[r.contour], r.center)
                 ELSE NoObs} :
           /\ StoreDetector(r.det)
           /\ outcome' = IF r.raised THEN "raised" ELSE "returned"
           /\ result' = Result(r.center, r.contour, o.direction)
           /\ seg' = Seg(r.mask, r.usedMotion, r.applies)
           /\ fp' = o
           /\ observed' = Append(observed, Observation(r))
    /\ calls' = calls + 1
    /\ lastFrame' = f
    /\ UNCHANGED <<pipeline, orientVars, game>>

\* FingerPointerGame.process_hand_tracking when self.camera.read() fails:
\* it returns None before it calls the detector
FingerReadFails ==
    /\ pipeline = "finger"
    /\ outcome' = "no_frame"
    /\ result' = NoResult
    /\ seg' = NoSeg
    /\ fp' = NoObs
    /\ UNCHANGED <<pipeline, simpleVars, orientVars, calls, lastFrame, observed, game>>

Next ==
    \/ \E f \in SimpleFrames : SimpleCall(f)
    \/ \E f \in OrientFrames : OrientCall(f)
    \/ \E f \in FingerFrames : FingerCall(f)
    \/ FingerReadFails

Spec == Init /\ [][Next]_vars

(***************************************************************************)
(* A SimpleHandDetector driven through its learning phase and beyond.      *)
(***************************************************************************)
InitLearn ==
    /\ pipeline = "simple"
    /\ lastFrame = NullFrame
    /\ Fresh

LearnCall(f) ==
    /\ calls < MaxLearnCalls
    /\ SimpleStep(f)
    /\ UNCHANGED observed

NextLearn == \E f \in LearnFrames : LearnCall(f)

SpecLearn == InitLearn /\ [][NextLearn]_vars

(***************************************************************************)
(* detect_gesture applied to one contour, for every list of up to          *)
(* MaxDefects defects and a range of hull areas.                           *)
(***************************************************************************)
DefectLists == UNION {[1..n -> DefectKinds] : n \in 0..MaxDefects}

\* hull areas around nine tenths of the contour area 4500
HullAreas == {4500, 4999, 5000, 5001, 9000}

\* contours by hull size and by what cv2.convexityDefects does on them; the
\* defects of a hull the code never passes on are what it would have returned
HullCases ==
    {[Hand(20, 25, 5000, st, ds, 5200) EXCEPT !.hullN = n] :
        n \in {0, 2, 3},
        st \in {"ok", "none", "error"},
        ds \in {<<Sharp>>, <<Sharp, Sharp>>}}

GestureInputs ==
    {Hand(20, 25, 4500, "ok", ds, ha) : ds \in DefectLists, ha \in HullAreas}
    \cup {Fist, FlatHull, DefectsFail, ThreeLoose, OpenPalm}
    \cup HullCases

InitGesture ==
    /\ pipeline = "gesture"
    /\ lastFrame \in {OneRegion(c) : c \in GestureInputs}
    /\ Fresh

\* a client calls detect_gesture(contour) on the contour of lastFrame
ClassifyCall ==
    /\ pipeline = "gesture"
    /\ outcome = "idle"
    /\ LET g == DetectGesture(lastFrame.blob[1])
       IN  /\ current_gesture' = IF g.raised THEN current_gesture ELSE g.gesture
           /\ outcome' = IF g.raised THEN "raised" ELSE "returned"
    /\ calls' = calls + 1
    /\ UNCHANGED <<pipeline, frame_count, has_bg_model, prev_positions, orientVars,
                   lastFrame, result, seg, fp, observed, game>>

NextGesture == ClassifyCall

SpecGesture == InitGesture /\ [][NextGesture]_vars

(***************************************************************************)
(* update_direction applied to one smoothed angle: every whole and every   *)
(* half degree of [0, 360).                                                *)
(***************************************************************************)
SmoothedAngles == {<<n, d>> : n \in 0..719, d \in {1, 2}} \ {<<n, 1>> : n \in 360..719}

InitDirection ==
    /\ pipeline = "direction"
    /\ lastFrame = NullFrame
    /\ frame_count = 0
    /\ has_bg_model = FALSE
    /\ prev_positions = <<>>
    /\ current_gesture = "unknown"
    /\ prev_orientations = <<>>
    /\ current_angle \in SmoothedAngles
    /\ current_direction = "unknown"
    /\ calls = 0
    /\ outcome = "idle"
    /\ result = NoResult
    /\ seg = NoSeg
    /\ fp = NoObs
    /\ observed = <<>>
    /\ game = NoGame

\* calculate_orientation calls self.update_direction() on current_angle
UpdateDirectionCall ==
    /\ pipeline = "direction"
    /\ outcome = "idle"
    /\ current_direction' = DirectionName(current_angle[1], current_angle[2])
    /\ outcome' = "returned"
    /\ calls' = calls + 1
    /\ UNCHANGED <<pipeline, simpleVars, prev_orientations, current_angle,
                   lastFrame, result, seg, fp, observed, game>>

NextDirection == UpdateDirectionCall

SpecDirection == InitDirection /\ [][NextDirection]_vars

(***************************************************************************)
(* Contour selection: one call of either detector on a frame of up to      *)
(* three skin-coloured regions, in every scan order.                       *)
(***************************************************************************)
SelectRegions == {Below, AtThreshold, Above, Fist, Pointing}

SelectFrames ==
    {Frame(b, 1..Len(b), {}, NoFace) :
        b \in UNION {[1..n -> SelectRegions] : n \in 1..3}}

InitSelect ==
    /\ pipeline \in {"simple", "orientation"}
    /\ lastFrame = NullFrame
    /\ Fresh

NextSelect ==
    \/ \E f \in SelectFrames : calls = 0 /\ SimpleCall(f)
    \/ \E f \in SelectFrames : calls = 0 /\ OrientCall(f)

SpecSelect == InitSelect /\ [][NextSelect]_vars

(***************************************************************************)
(* The finger-pointer pipeline on its first frame, for every single defect *)
(* row [s, e, f] over three sample contours: far points between, beside   *)
(* and on the start and end points, at a right angle and on one line.      *)
(***************************************************************************)
DefectRows ==
    {Defect(s, e, f) : s \in 1..Len(HandPts), e \in 1..Len(HandPts),
                       f \in 1..Len(HandPts)}
    \ {Defect(s, s, f) : s \in 1..Len(HandPts), f \in 1..Len(HandPts)}

\* a contour with a right angle of legs 1 and 1 at (20, 1), one of legs 16
\* and 12 at (16, 30), and the collinear points (20, 0), (21, 2), (23, 6)
CornerPts == << Pt(20, 0), Pt(21, 1), Pt(20, 1),
                Pt(21, 2), Pt(23, 6), Pt(0, 30),
                Pt(16, 42), Pt(16, 30), Pt(46, 30) >>

Corner(d) ==
    Contour(CornerPts, 5000, 5000, 20 * 5000 + 2500, 25 * 5000 + 2500, 4, "ok",
            <<d>>, 6000, Rect(30, 60, 40))

\* a contour with sides on which b**2 is not the nearest double: a right
\* angle at (4, 0) under a hypotenuse of square 13810, one at (11, 117)
\* with legs of square 13810, and the collinear points (117, 0), (45, 88),
\* (0, 143) with a side of square 34138
LongSidePts == << Pt(0, 4), Pt(87, 83), Pt(4, 0),
              Pt(0, 0), Pt(128, 106), Pt(11, 117),
              Pt(117, 0), Pt(45, 88), Pt(0, 143) >>

LongSide(d) ==
    Contour(LongSidePts, 5000, 5000, 60 * 5000 + 2500, 70 * 5000 + 2500, 4, "ok",
            <<d>>, 6000, Rect(30, 60, 40))

FingertipFrames ==
    {OneRegion(Hand(20, 25, 5000, "ok", <<d>>, 6000)) : d \in DefectRows}
    \cup {OneRegion(Corner(d)) : d \in DefectRows}
    \cup {OneRegion(LongSide(d)) : d \in DefectRows}

InitFingertip ==
    /\ pipeline = "finger"
    /\ lastFrame = NullFrame
    /\ Fresh

NextFingertip == \E f \in FingertipFrames : calls = 0 /\ FingerCall(f)

SpecFingertip == InitFingertip /\ [][NextFingertip]_vars

(***************************************************************************)
(* The finger-pointer pipeline on contours whose fingertip candidates lie  *)
(* at equal distances from the smoothed centre, or on it.                  *)
(***************************************************************************)
\* one defect whose start (23, 20) is the only candidate near the top; the
\* raw centroid (26, 15) averages with (20, 25) to that point
SoleCandidate ==
    Contour(LongWristPts, 5000, 5000, 26 * 5000 + 2500, 15 * 5000 + 2500, 4, "ok",
            <<Defect(3, 6, 4)>>, 6000, Rect(30, 40, 60))

\* no candidate from the defect; the rightmost and the leftmost point are
\* equally far from the centre (23, 22)
LevelHand == Hand(23, 22, 5000, "ok", <<Obtuse>>, 5300)

\* two candidates from one defect; the centre (13, 15) is equally far from
\* (20, 0) and (0, 30)
TwoTips == Hand(13, 15, 5000, "ok", <<Defect(1, 4, 4)>>, 6000)

TipContours ==
    {Fist, Pointing, Shallow, LongWrist, Narrow, SoleCandidate, LevelHand, TwoTips}

TipFrames == {OneRegion(c) : c \in TipContours}

InitTip ==
    /\ pipeline = "finger"
    /\ lastFrame = NullFrame
    /\ Fresh

NextTip == \E f \in TipFrames : calls < MaxTipCalls /\ FingerCall(f)

SpecTip == InitTip /\ [][NextTip]_vars

(***************************************************************************)
(* Both direction computations on contours for which an OpenCV call of the *)
(* direction block raises.                                                 *)
(***************************************************************************)
\* a fist whose rotated bounding box cannot be computed
BoxFails ==
    Contour(HandPts, 5000, 5000, 27 * 5000 + 2500, 22 * 5000 + 2500, 4, "none",
            <<>>, 5200, RectFails)
\* the same failure for a contour whose fingertip gives the direction
BoxUnused ==
    Contour(HandPts, 5000, 5000, 27 * 5000 + 2500, 22 * 5000 + 2500, 4, "ok",
            <<Sharp>>, 6000, RectFails)

FailureContours == {Fist, Pointing, DefectsFail, BoxFails, BoxUnused, Below}

FailureFrames == {OneRegion(c) : c \in FailureContours}

InitFailure ==
    /\ pipeline \in {"finger", "orientation"}
    /\ lastFrame = NullFrame
    /\ Fresh

NextFailure ==
    \/ \E f \in FailureFrames : calls < MaxFailureCalls /\ FingerCall(f)
    \/ \E f \in FailureFrames : calls < MaxFailureCalls /\ OrientCall(f)

SpecFailure == InitFailure /\ [][NextFailure]_vars

(***************************************************************************)
(* Contours on which a primitive that the detectors call outside every     *)
(* try raises: cv2.contourArea, cv2.arcLength, cv2.moments and             *)
(* cv2.convexHull.  cv2.arcLength is called by detect_gesture alone, so    *)
(* its failure leaves the simple detector and the finger game, not the     *)
(* orientation detector.                                                   *)
(***************************************************************************)
UnguardedPrimitives == {"contourArea", "arcLength", "moments", "convexHull"}

EscapeContours ==
    {Raising(c, prim) : c \in {Fist, Pointing}, prim \in UnguardedPrimitives}

\* the last frame holds a second, smaller region on which cv2.contourArea
\* raises
EscapeFrames ==
    {OneRegion(c) : c \in EscapeContours \cup {Fist, Pointing}}
    \cup {Frame(<<Fist, Raising(Below, "contourArea")>>, {1, 2}, {1, 2}, NoFace)}

NextEscape ==
    \/ \E f \in EscapeFrames : calls < MaxEscapeCalls /\ SimpleCall(f)
    \/ \E f \in EscapeFrames : calls < MaxEscapeCalls /\ OrientCall(f)
    \/ \E f \in EscapeFrames : calls < MaxEscapeCalls /\ FingerCall(f)
    \/ calls < MaxEscapeCalls /\ FingerReadFails

SpecEscape == Init /\ [][NextEscape]_vars

(***************************************************************************)
(* PlatformerGame: detect_hand and the rest of one iteration of run.       *)
(*   phase       "detect": the loop is about to call detect_hand;          *)
(*               "events": detect_hand returned True; "stopped": the loop  *)
(*               has ended                                                 *)
(*   rising      the updates still to run before player["vel_y"] is        *)
(*               positive after its gravity step: the jump block sets      *)
(*               vel_y = -15 and _update_player adds 0.8 per update, so    *)
(*               the 19th update after a jump is the first with vel_y > 0  *)
(*   jumped      the most recent detect_hand call ran the jump block       *)
(*   sinceJump   detect_hand calls after the most recent jump start,       *)
(*               counted up to jump_cooldown_frames + 1; -1 before the     *)
(*               first jump                                                *)
(*   gap         detect_hand calls from the previous jump start to the     *)
(*               most recent one (the difference of their call numbers);   *)
(*               -1 when there was no previous one                         *)
(* The player's position, the platforms and the obstacles are not          *)
(* modelled: whether an update lands the player on a platform, and whether *)
(* it ends the game, are choices of the step, the landing only where the   *)
(* code's test vel_y > 0 can hold.                                         *)
(***************************************************************************)
Platformer(phase, running, over, jumping, rising, cooldown, gesture, jumped, since, gap) ==
    [kind |-> "platformer", phase |-> phase, running |-> running,
     game_over |-> over, is_jumping |-> jumping, rising |-> rising,
     jump_cooldown |-> cooldown, last_gesture |-> gesture, jumped |-> jumped,
     sinceJump |-> since, gap |-> gap]

\* the updates after a jump in which vel_y + gravity is still <= 0:
\* -15 + 0.8 * n <= 0 for n <= 18
RiseUpdates == (5 * jump_velocity) \div gravity_fifths

\* gesture == "closed_fist" and not self.player["is_jumping"]
\* and self.jump_cooldown <= 0
JumpAllowed(gesture, is_jumping, jump_cooldown) ==
    gesture = "closed_fist" /\ ~is_jumping /\ jump_cooldown <= 0

CountUp(n) == IF n = -1 THEN -1
              ELSE IF n > jump_cooldown_frames THEN n ELSE n + 1

PlatFrames == {OneRegion(Fist), OneRegion(ThumbsUp), Empty}

\* cap.read() fails: detect_hand returns False and run leaves its loop
PlatReadFails ==
    /\ pipeline = "platformer"
    /\ game.phase = "detect"
    /\ calls < MaxPlatCalls
    /\ game' = [game EXCEPT !.phase = "stopped", !.running = FALSE,
                            !.jumped = FALSE, !.sinceJump = CountUp(@)]
    /\ calls' = calls + 1
    /\ outcome' = "returned"
    /\ result' = NoResult
    /\ UNCHANGED <<pipeline, simpleVars, orientVars, lastFrame, seg, fp, observed>>

\* detect_hand on a frame the camera delivered; key is the cv2.waitKey result
PlatDetectHand(f, key) ==
    /\ pipeline = "platformer"
    /\ game.phase = "detect"
    /\ calls < MaxPlatCalls
    /\ \E r \in {SimpleProcessFrame([f EXCEPT !.face = NoFace], CurrentDetector)} :
       LET detected == ~r.raised /\ r.center # NoCenter /\ r.contour # NoContour
           gesture == r.det.current_gesture
           jump == detected
                   /\ JumpAllowed(gesture, game.is_jumping, game.jump_cooldown)
           cooldown == IF jump THEN jump_cooldown_frames ELSE game.jump_cooldown
           quits == r.raised \/ key = "q"
       IN  /\ StoreDetector(r.det)
           /\ outcome' = IF r.raised THEN "raised" ELSE "returned"
           /\ result' = Result(r.center, r.contour, NoDirection)
           /\ seg' = Seg(r.mask, r.usedMotion, r.applies)
           /\ game' = Platformer(
                 IF quits THEN "stopped" ELSE "events",
                 IF key = "q" /\ ~r.raised THEN FALSE ELSE game.running,
                 game.game_over,
                 game.is_jumping \/ jump,
                 IF jump THEN RiseUpdates ELSE game.rising,
                 IF ~quits /\ cooldown > 0 THEN cooldown - 1 ELSE cooldown,
                 IF detected THEN gesture ELSE game.last_gesture,
                 jump,
                 IF jump THEN 0 ELSE CountUp(game.sinceJump),
                 IF jump THEN CountUp(game.sinceJump) ELSE game.gap)
    /\ calls' = calls + 1
    /\ lastFrame' = f
    /\ UNCHANGED <<pipeline, orientVars, fp, observed>>

\* the events pygame.event.get() can hand to handle_events: pygame.QUIT,
\* KEYDOWN with K_ESCAPE, KEYDOWN with K_SPACE, and any other event
PlatEvents == {"quit", "escape", "space", "other"}

\* the queues of up to n events
EventQueues(kinds, n) == UNION {[1..k -> kinds] : k \in 0..n}

\* reset_game(): game_over False, the player back on the ground with
\* vel_y = 0 and is_jumping False; jump_cooldown is not touched
ResetGame(g) == [g EXCEPT !.game_over = FALSE, !.is_jumping = FALSE, !.rising = 0]

\* the body of the loop of handle_events for one event
PlatHandleEvent(g, event) ==
    IF event \in {"quit", "escape"} THEN [g EXCEPT !.running = FALSE]
    ELSE IF event = "space" /\ g.game_over THEN ResetGame(g)
    ELSE g

\* handle_events(): every queued event, in order
RECURSIVE PlatHandleEvents(_, _)
PlatHandleEvents(g, events) ==
    IF events = <<>> THEN g
    ELSE PlatHandleEvents(PlatHandleEvent(g, Head(events)), Tail(events))

\* update(): _update_player adds gravity to vel_y and sets game_over on a
\* fall below the screen; _check_collisions sets is_jumping True, then
\* False (with vel_y = 0) when the player is on a platform with vel_y > 0,
\* and sets game_over on an obstacle
PlatUpdate(g, lands, dies) ==
    [g EXCEPT !.rising = IF @ > 0 THEN @ - 1 ELSE 0,
              !.is_jumping = ~(lands /\ g.rising = 0),
              !.game_over = dies]

\* the rest of the iteration after detect_hand returned True:
\* handle_events(), then update() unless game_over; the loop ends when
\* running is False
PlatLoopRest(events, lands, dies) ==
    /\ pipeline = "platformer"
    /\ game.phase = "events"
    /\ \E g \in {PlatHandleEvents(game, events)} :
          game' = [(IF g.game_over THEN g ELSE PlatUpdate(g, lands, dies))
                      EXCEPT !.phase = IF g.running THEN "detect" ELSE "stopped"]
    /\ UNCHANGED <<pipeline, simpleVars, orientVars, calls, lastFrame, outcome,
                   result, seg, fp, observed>>

\* PlatformerGame.__init__
InitPlat ==
    /\ pipeline = "platformer"
    /\ lastFrame = NullFrame
    /\ frame_count = 0
    /\ has_bg_model = FALSE
    /\ prev_positions = <<>>
    /\ current_gesture = "unknown"
    /\ prev_orientations = <<>>
    /\ current_angle = <<0, 1>>
    /\ current_direction = "unknown"
    /\ calls = 0
    /\ outcome = "idle"
    /\ result = NoResult
    /\ seg = NoSeg
    /\ fp = NoObs
    /\ observed = <<>>
    /\ game = Platformer("detect", TRUE, FALSE, FALSE, 0, 0, "unknown", FALSE, -1, -1)

NextPlat ==
    \/ PlatReadFails
    \/ \E f \in PlatFrames, key \in {"none", "q"} : PlatDetectHand(f, key)
    \/ \E events \in EventQueues(PlatEvents, MaxPlatEvents), lands, dies \in BOOLEAN :
          PlatLoopRest(events, lands, dies)

SpecPlat == InitPlat /\ [][NextPlat]_vars

(***************************************************************************)
(* HandOrientationGame: one iteration of the loop of run, with update.     *)
(* Lengths are integers in units of 1 / Units pixel and times in ticks of  *)
(* 1 / TicksPerSecond second.  The frames of this game show a level hand   *)
(* (angle 0, direction (1.0, 0.0)) or none, and at most MaxCoast updates   *)
(* of a run have no direction; with MaxCoast = 1 every position and        *)
(* velocity the code computes is a multiple of 1/8 pixel, and every timer  *)
(* a multiple of 1/64 second, so that the floats of the code are exact and *)
(* equal to the integers of the model.                                     *)
(*   coast      the updates that had no direction and multiplied           *)
(*              ball_velocity by 0.95                                      *)
(*   spaced     the most recent iteration began in game_over and its       *)
(*              events held a SPACE key                                    *)
(*   restarted  the most recent iteration ran the restart block            *)
(*   updated    the most recent iteration called update                    *)
(***************************************************************************)
Units == 160
TicksPerSecond == 64

Abs(v) == IF v < 0 THEN -v ELSE v

\* math.sqrt(dx**2 + dy**2) > r for a whole number r of pixels; the squares
\* are formed only where no single coordinate decides
Farther(dx, dy, r) ==
    IF Abs(dx) > r * Units \/ Abs(dy) > r * Units THEN TRUE
    ELSE dx * dx + dy * dy > (r * Units) * (r * Units)

\* math.sqrt(dx**2 + dy**2) < r
Nearer(dx, dy, r) ==
    IF Abs(dx) >= r * Units \/ Abs(dy) >= r * Units THEN FALSE
    ELSE dx * dx + dy * dy < (r * Units) * (r * Units)

\* rand = random.random() in hundredths: the branch rand > 0.95 stands behind
\* rand > 0.9 and is never taken
TargetType(rand) ==
    IF rand > 90 THEN "bonus"
    ELSE IF rand > 95 THEN "speed"
    ELSE "standard"

\* value of a target of the type
TargetValue(type) == IF type = "bonus" THEN 3 ELSE 1

\* the dictionary spawn_target appends for the sample (x, y, radius, rand)
Target(x, y, radius, rand) ==
    [x |-> x, y |-> y, radius |-> radius, type |-> TargetType(rand),
     value |-> TargetValue(TargetType(rand))]

\* the dictionary spawn_obstacle appends
Obstacle(x, y, width, height) == [x |-> x, y |-> y, width |-> width, height |-> height]

\* the sample spawn_target keeps: inside the margins and more than 100
\* pixels from the ball
AcceptedTarget(t, pos) ==
    /\ t.radius \in 15..30
    /\ t.x \in 50..(game_width - 50)
    /\ t.y \in 50..(game_height - 50)
    /\ Farther(t.x * Units - pos[1], t.y * Units - pos[2], 100)

\* the sample spawn_obstacle keeps: its centre (x + width // 2,
\* y + height // 2) more than 150 pixels from the ball
AcceptedObstacle(o, pos) ==
    /\ o.width \in 30..80
    /\ o.height \in 30..80
    /\ o.x \in 100..(game_width - 100 - o.width)
    /\ o.y \in 100..(game_height - 100 - o.height)
    /\ Farther((o.x + o.width \div 2) * Units - pos[1],
               (o.y + o.height \div 2) * Units - pos[2], 150)

OrientGame(running, state, score, pos, vel, speed, ts, os, tt, ot) ==
    [kind |-> "orientgame", running |-> running, game_state |-> state,
     score |-> score, ball_pos |-> pos, ball_velocity |-> vel, ball_speed |-> speed,
     targets |-> ts, obstacles |-> os, spawn_target_timer |-> tt,
     spawn_obstacle_timer |-> ot, coast |-> 0, spaced |-> FALSE,
     restarted |-> FALSE, updated |-> FALSE]

\* [self.width // 2, self.height // 2]
Centre == <<(game_width \div 2) * Units, (game_height \div 2) * Units>>

\* samples of the random draws: a target and an obstacle on the line the
\* ball takes to the right of the centre, and a target and an obstacle in
\* the upper left corner
OnPathTarget(rand) == Target(510, 300, 30, rand)
OffPathTarget(rand) == Target(100, 100, 15, rand)
OnPathObstacle == Obstacle(505, 300, 80, 80)
OffPathObstacle == Obstacle(100, 100, 30, 30)

\* draws of random.random() that give a standard target, and a bonus target
\* where the speed branch was meant
Rands == {50, 97}

\* five spawn_target() and three spawn_obstacle() calls with the ball at the
\* centre: the first bonus draws above 0.9, the others below
FreshTargets(bonus) ==
    [i \in 1..initial_targets |->
        IF i = 1 THEN OnPathTarget(IF bonus >= 1 THEN 93 ELSE 50)
        ELSE OffPathTarget(IF i <= bonus THEN 93 ELSE 50)]

FreshObstacles == <<OnPathObstacle, OffPathObstacle, OffPathObstacle>>

AcceptedBoard(b, pos) ==
    /\ Len(b.targets) = initial_targets
    /\ Len(b.obstacles) = initial_obstacles
    /\ \A i \in 1..Len(b.targets) : AcceptedTarget(b.targets[i], pos)
    /\ \A i \in 1..Len(b.obstacles) : AcceptedObstacle(b.obstacles[i], pos)

FreshBoards ==
    {b \in {[targets |-> FreshTargets(bonus), obstacles |-> FreshObstacles] :
               bonus \in 0..initial_targets} : AcceptedBoard(b, Centre)}

NoBoard == [targets |-> <<>>, obstacles |-> <<>>]

\* the restart block of run; the spawn timers keep their values
Restarted(g, board) ==
    [g EXCEPT !.game_state = "playing",
              !.score = 0,
              !.ball_pos = Centre,
              !.ball_velocity = <<0, 0>>,
              !.ball_speed = initial_ball_speed,
              !.targets = board.targets,
              !.obstacles = board.obstacles,
              !.restarted = TRUE]

\* the events pygame.event.get() can hand to run: pygame.QUIT, KEYDOWN with
\* K_ESCAPE, KEYDOWN with K_SPACE, and any other event
GameEvents == {"quit", "escape", "space", "other"}

\* the body of the event loop of run for one event
HandleEvent(g, event, board) ==
    IF event \in {"quit", "escape"} THEN [g EXCEPT !.running = FALSE]
    ELSE IF event = "space" /\ g.game_state = "game_over" THEN Restarted(g, board)
    ELSE g

\* the event loop of run: every queued event, in order
RECURSIVE HandleEvents(_, _, _)
HandleEvents(g, events, board) ==
    IF events = <<>> THEN g
    ELSE HandleEvents(HandleEvent(g, Head(events), board), Tail(events), board)

HasSpace(events) == \E i \in 1..Len(events) : events[i] = "space"

\* direction = (math.cos(angle_rad), math.sin(angle_rad)) at 0 degrees; at
\* other angles the coordinates are no multiples of the unit
UnitVector(d) == CASE d.kind = "deg" /\ d.a = 0 -> <<1, 0>>

\* v * 0.95 and v * -0.5, where the product is a multiple of the unit
Damped(v) == CHOOSE w \in {(19 * v) \div 20} : 20 * w = 19 * v
Reflected(v) == CHOOSE w \in {(-v) \div 2} : 2 * w = -v

\* ball_velocity after the direction was applied
Steer(g, d) ==
    IF d # NoDirection
    THEN <<UnitVector(d)[1] * g.ball_speed * Units,
           UnitVector(d)[2] * g.ball_speed * Units>>
    ELSE <<Damped(g.ball_velocity[1]), Damped(g.ball_velocity[2])>>

\* one coordinate after "Keep ball within screen bounds": <<position, velocity>>
Bounce(pos, vel, size) ==
    IF pos < ball_radius * Units
    THEN <<ball_radius * Units, Reflected(vel)>>
    ELSE IF pos > (size - ball_radius) * Units
    THEN <<(size - ball_radius) * Units, Reflected(vel)>>
    ELSE <<pos, vel>>

\* the ball after the first part of update: velocity, position, walls
Moved(g, d) ==
    LET v == Steer(g, d)
        bx == Bounce(g.ball_pos[1] + v[1], v[1], game_width)
        by == Bounce(g.ball_pos[2] + v[2], v[2], game_height)
    IN  [pos |-> <<bx[1], by[1]>>, vel |-> <<bx[2], by[2]>>]

\* distance < self.ball_radius + target["radius"]
Touches(pos, t) ==
    Nearer(t.x * Units - pos[1], t.y * Units - pos[2], ball_radius + t.radius)

\* the collision test of update for one obstacle
Hits(pos, o) ==
    LET half_w == (o.width * Units) \div 2
        half_h == (o.height * Units) \div 2
        circle_dist_x == Abs(pos[1] - (o.x * Units + half_w))
        circle_dist_y == Abs(pos[2] - (o.y * Units + half_h))
        r == ball_radius * Units
    IN  /\ ~(circle_dist_x > half_w + r \/ circle_dist_y > half_h + r)
        /\ \/ circle_dist_x <= half_w
           \/ circle_dist_y <= half_h
           \/ (circle_dist_x - half_w) * (circle_dist_x - half_w)
                 + (circle_dist_y - half_h) * (circle_dist_y - half_h) <= r * r

TargetDue(g, dt) == g.spawn_target_timer + dt >= spawn_target_delay * TicksPerSecond
ObstacleDue(g, dt) ==
    g.spawn_obstacle_timer + dt >= spawn_obstacle_delay * TicksPerSecond

SpeedUp(speed, n) == IF speed + n < max_ball_speed THEN speed + n ELSE max_ball_speed

\* update(delta_time) after process_hand_tracking returned d; target and
\* obstacle are the samples spawn_target and spawn_obstacle keep when their
\* timers are due
Collide(g, d, dt, target, obstacle, ball) ==
    LET ts == IF TargetDue(g, dt) THEN Append(g.targets, target) ELSE g.targets
        os == IF ObstacleDue(g, dt) THEN Append(g.obstacles, obstacle)
              ELSE g.obstacles
        touched == SelectSeq(ts, LAMBDA t : Touches(ball.pos, t))
        scoring == SelectSeq(touched, LAMBDA t : t.type # "speed")
    IN  [g EXCEPT
            !.ball_velocity = ball.vel,
            !.ball_pos = ball.pos,
            !.coast = IF d = NoDirection THEN @ + 1 ELSE @,
            !.spawn_target_timer =
                IF TargetDue(g, dt) THEN 0 ELSE @ + dt,
            !.spawn_obstacle_timer =
                IF ObstacleDue(g, dt) THEN 0 ELSE @ + dt,
            !.targets = SelectSeq(ts, LAMBDA t : ~Touches(ball.pos, t)),
            !.obstacles = os,
            !.ball_speed = SpeedUp(@, Len(touched) - Len(scoring)),
            !.score = @ + SumSeq([i \in 1..Len(scoring) |-> scoring[i].value]),
            !.game_state = IF \E i \in 1..Len(os) : Hits(ball.pos, os[i])
                           THEN "game_over" ELSE @,
            !.updated = TRUE]

Update(g, d, dt, target, obstacle) ==
    The({Collide(g, d, dt, target, obstacle, ball) : ball \in {Moved(g, d)}})

\* a hand whose rotated bounding box lies level: angle 0
LevelBox == Turned(Rect(0, 60, 40))

\* frames of the game: a hand outside the face, no hand, and no frame
\* (self.camera.read() fails)
GameFrames ==
    {Frame(<<LevelBox>>, {1}, {}, FaceMask({1})),
     Frame(<<LevelBox>>, {}, {}, FaceMask({1})),
     NullFrame}

\* the samples spawn_target and spawn_obstacle can keep in this update, with
\* the ball where update has moved it
SpawnedTargets(g, d, dt) ==
    IF ~TargetDue(g, dt) THEN {OffPathTarget(50)}
    ELSE {t \in {OffPathTarget(rand) : rand \in Rands} :
             AcceptedTarget(t, Moved(g, d).pos)}

SpawnedObstacles(g, d, dt) ==
    IF ~ObstacleDue(g, dt) THEN {OffPathObstacle}
    ELSE {o \in {OffPathObstacle} : AcceptedObstacle(o, Moved(g, d).pos)}

\* delta_time of an iteration: one tick, two seconds
DeltaTimes == {1, 2 * TicksPerSecond}

\* process_hand_tracking(): None when the read fails, else what the
\* detector returns; an exception of the detector leaves the method
ProcessHandTracking(f, det) ==
    IF ~f.img THEN OrientResult(FALSE, det, NoCenter, NoContour, NoDirection)
    ELSE OrientProcessFrame(f, det)

\* the end of an iteration: key q of the OpenCV window
EndIteration(g, key) == [g EXCEPT !.running = g.running /\ key # "q"]

\* the iteration goes on with game_state "playing": update(delta_time),
\* draw, waitKey.  An exception of the detector leaves update and run.
Playing(g, f, dt, key) ==
    /\ calls < MaxGameUpdates
    /\ \E r \in {ProcessHandTracking(f, CurrentOrientation)} :
          /\ prev_orientations' = r.det.prev_orientations
          /\ current_angle' = <<r.det.angle_num, r.det.angle_den>>
          /\ current_direction' = r.det.current_direction
          /\ outcome' = IF r.raised THEN "raised"
                        ELSE IF f.img THEN "returned" ELSE "no_frame"
          /\ result' = Result(r.center, r.contour, r.direction)
          /\ IF r.raised
             THEN game' = g
             ELSE /\ r.direction = NoDirection => g.coast < MaxCoast
                  /\ TargetDue(g, dt) => Len(g.targets) < MaxTargets
                  /\ ObstacleDue(g, dt) => Len(g.obstacles) < MaxObstacles
                  /\ \E target \in SpawnedTargets(g, r.direction, dt),
                        obstacle \in SpawnedObstacles(g, r.direction, dt) :
                          game' = EndIteration(
                                      Update(g, r.direction, dt, target, obstacle),
                                      key)
    /\ calls' = calls + 1
    /\ lastFrame' = IF f.img THEN f ELSE lastFrame
    /\ UNCHANGED <<pipeline, simpleVars, seg, fp, observed>>

\* the iteration goes on with game_state "game_over": draw, waitKey
Idle(g, key) ==
    /\ game' = EndIteration(g, key)
    /\ UNCHANGED <<pipeline, simpleVars, orientVars, calls, lastFrame, outcome,
                   result, seg, fp, observed>>

\* the event loop of run on the queue events, with the board the restart
\* block draws
Handled(g, events, board) ==
    [HandleEvents([g EXCEPT !.restarted = FALSE, !.updated = FALSE], events, board)
        EXCEPT !.spaced = g.game_state = "game_over" /\ HasSpace(events)]

\* the game after the event loop of an iteration, for every queue of at most
\* MaxGameEvents events
AfterEvents(g) ==
    UNION {{Handled(g, events, board) :
               board \in IF g.game_state = "game_over" /\ HasSpace(events)
                         THEN FreshBoards ELSE {NoBoard}} :
           events \in EventQueues(GameEvents, MaxGameEvents)}

\* one iteration of the loop of run: the queued events, then update when
\* game_state is "playing", then key q
RunIteration(g, key) ==
    /\ pipeline = "orientgame"
    /\ game.running
    /\ outcome # "raised"
    /\ IF g.game_state = "playing"
       THEN \E f \in GameFrames, dt \in DeltaTimes : Playing(g, f, dt, key)
       ELSE Idle(g, key)

\* HandOrientationGame.__init__
InitGame ==
    /\ pipeline = "orientgame"
    /\ lastFrame = NullFrame
    /\ frame_count = 0
    /\ has_bg_model = FALSE
    /\ prev_positions = <<>>
    /\ current_gesture = "unknown"
    /\ prev_orientations = <<>>
    /\ current_angle = <<0, 1>>
    /\ current_direction = "unknown"
    /\ calls = 0
    /\ outcome = "idle"
    /\ result = NoResult
    /\ seg = NoSeg
    /\ fp = NoObs
    /\ observed = <<>>
    /\ \E board \in FreshBoards :
          game = OrientGame(TRUE, "playing", 0, Centre, <<0, 0>>,
                            initial_ball_speed, board.targets, board.obstacles,
                            0, 0)

NextGame ==
    \E g \in AfterEvents(game), key \in {"none", "q"} : RunIteration(g, key)

SpecGame == InitGame /\ [][NextGame]_vars

(***************************************************************************)
(* Properties.                                                             *)
(***************************************************************************)
Returned == outcome = "returned"
UsesSimpleDetector == pipeline \in {"simple", "finger"}
Detected == result.center # NoCenter /\ result.contour # NoContour
NoHand == result.center = NoCenter /\ result.contour = NoContour

\* the mask the most recent call extracted its contours from
LastMask == IF pipeline = "orientation" THEN OrientMask(lastFrame) ELSE seg.mask

\* the areas of the contours found in that mask
MaskAreas == {lastFrame.blob[i].area : i \in LastMask}

\* a contour of the mask that no other contour of the mask exceeds in area
Largest(i) ==
    /\ i \in LastMask
    /\ \A j \in LastMask : lastFrame.blob[j].area <= lastFrame.blob[i].area

\* C1: on a fresh SimpleHandDetector each of the first frames_to_learn calls
\* extracts its contours from the skin mask alone (with the face mask, if
\* any), and every later call from the skin mask ANDed with the motion mask.
C1_LearningGate ==
    (pipeline = "simple" /\ Returned) =>
        IF calls <= frames_to_learn
        THEN ~seg.usedMotion /\ seg.mask = SegmentMask(lastFrame, FALSE)
        ELSE seg.usedMotion /\ seg.mask = SegmentMask(lastFrame, TRUE)

\* the label a detector with no history reports for the contour extracted
\* from a frame (none: the label it was constructed with)
FreshGesture(f, k) ==
    IF k = NoContour THEN "unknown" ELSE DetectGesture(f.blob[k]).gesture

\* C2: the gesture reported after a frame is the one a detector without any
\* history reports for that frame's contour, so it is the same after every
\* history, also when the frame holds no hand.
C2_GestureFromFrameAlone ==
    (UsesSimpleDetector /\ Returned) =>
        current_gesture = FreshGesture(lastFrame, result.contour)

\* C3: in the finger-pointer pipeline, whenever a frame with a detected hand
\* gets no direction from Strategy A (short hull, no defects, no fingertip
\* away from the centre, or an error inside Strategy A), Strategy B is
\* attempted in that frame.
C3_FallbackAlways ==
    (pipeline = "finger" /\ Returned /\ Detected
        /\ fp.stratA \in {"hull", "nodefects", "nodir", "error"}) => fp.triedB

\* C4: no failure of a geometric primitive raised while a frame is
\* processed escapes a per-frame pipeline call: a call on a camera frame ends
\* in a returned result, never in a propagated exception.
C4_NoGeometricEscape == outcome = "raised" => ~lastFrame.img

\* C5: process_frame on a null frame returns the all-null result and does
\* not raise.
C5_NullFrameTolerated ==
    (pipeline \in {"simple", "orientation"} /\ calls > 0 /\ ~lastFrame.img) =>
        (Returned /\ result = NoResult)

\* C6: when the largest contour of the mask has area min_contour_area - 1 the
\* call reports no hand, and when it has area min_contour_area + 1 and a
\* non-zero M00 the call reports a detection of that contour, in both
\* detectors.
C6_AreaBoundary ==
    (pipeline \in Pipelines /\ Returned) =>
        \A i \in 1..Len(lastFrame.blob) :
            Largest(i) =>
                /\ lastFrame.blob[i].area = min_contour_area - 1 => NoHand
                /\ (lastFrame.blob[i].area = min_contour_area + 1
                        /\ lastFrame.blob[i].m00 # 0) =>
                      (Detected
                        /\ lastFrame.blob[result.contour].area = min_contour_area + 1)

\* both detectors at the boundary: a contour of area min_contour_area + 1
\* was detected
C6_Witness ==
    /\ pipeline = "simple"
    /\ Returned /\ Detected
    /\ MaskAreas = {min_contour_area + 1}

\* C7: a contour is discarded exactly when its area is below
\* min_contour_area: with a non-zero M00 the largest contour of the mask is
\* detected if and only if its area is at least min_contour_area, in both
\* detectors.
C7_ThresholdInclusive ==
    (pipeline \in Pipelines /\ Returned) =>
        \A i \in 1..Len(lastFrame.blob) :
            (Largest(i) /\ lastFrame.blob[i].m00 # 0) =>
                (Detected <=> lastFrame.blob[i].area >= min_contour_area)

\* the number of defect rows whose far-vertex angle exists and is at most a
\* right angle
GapCount(c) ==
    Cardinality({i \in 1..Len(c.defects) :
        LET A == Dist2(c.pts[c.defects[i].e], c.pts[c.defects[i].s])
            B == Dist2(c.pts[c.defects[i].f], c.pts[c.defects[i].s])
            C == Dist2(c.pts[c.defects[i].e], c.pts[c.defects[i].f])
        IN  B * C # 0 /\ (B + C - A) * (B + C - A) <= 4 * B * C /\ B + C - A >= 0})

\* the label table of the gesture classifier
LabelOfCount(n, area, hullArea) ==
    CASE n = 0 -> "closed_fist"
      [] n = 1 -> "pointing"
      [] n = 2 -> "victory"
      [] n >= 4 -> "open_palm"
      [] OTHER -> IF 10 * area > 9 * hullArea THEN "thumbs_up" ELSE "unknown"

\* C8: detect_gesture maps the number n of counted finger gaps to
\* closed_fist (0), pointing (1), victory (2), open_palm (4 and more) and,
\* for 3, thumbs_up when contourArea / hullArea > 0.9 and unknown otherwise.
C8_GestureTable ==
    (pipeline = "gesture" /\ outcome # "idle"
        /\ lastFrame.blob[1].hullN >= 3 /\ lastFrame.blob[1].defStatus = "ok") =>
        /\ Returned
        /\ current_gesture = LabelOfCount(GapCount(lastFrame.blob[1]),
                                          lastFrame.blob[1].area,
                                          lastFrame.blob[1].hullArea)

\* three counted gaps among five defects at solidity exactly 0.9: unknown
C8_Witness ==
    /\ pipeline = "gesture"
    /\ Returned
    /\ Len(lastFrame.blob[1].defects) = MaxDefects
    /\ GapCount(lastFrame.blob[1]) = 3
    /\ 10 * lastFrame.blob[1].area = 9 * lastFrame.blob[1].hullArea
    /\ current_gesture = "unknown"

\* the four extreme points of the detected contour
FourExtremes(c) == {ExtremeTop(c), ExtremeBottom(c), ExtremeLeft(c), ExtremeRight(c)}

\* C9: in Strategy A, when no defect endpoint passes the angle and
\* distance-to-top filter, the fingertip candidates are exactly the four
\* extreme contour points: topmost, bottommost, leftmost and rightmost.
C9_FallbackFourExtremes ==
    (pipeline = "finger" /\ Returned /\ Detected
        /\ fp.stratA \in {"dir", "nodir"}
        /\ CollectCandidates(lastFrame.blob[result.contour],
                             lastFrame.blob[result.contour].defects) = <<>>) =>
        {fp.cands[i] : i \in 1..Len(fp.cands)}
            = FourExtremes(lastFrame.blob[result.contour])

\* C10: for every defect the fingertip estimator uses the side lengths of the
\* gesture classifier; its c is the distance between end and far.
C10_SameSides ==
    (pipeline = "finger" /\ Returned /\ Detected /\ fp.stratA \in {"dir", "nodir"}) =>
        LET c == lastFrame.blob[result.contour]
        IN  \A i \in 1..Len(c.defects) :
                /\ fp.cSq[i] = Dist2(DefEnd(c, c.defects[i]), DefFar(c, c.defects[i]))
                /\ fp.cSq[i] = ClassifierC2(c, c.defects[i])

\* the compass label of the angle num / den degrees, 0 <= num / den < 360:
\* RIGHT on (315, 360) and [0, 45], DOWN on (45, 135], LEFT on (135, 225]
CompassLabel(num, den) ==
    IF num > 315 * den \/ num <= 45 * den THEN "RIGHT"
    ELSE IF num <= 135 * den THEN "DOWN"
    ELSE IF num <= 225 * den THEN "LEFT"
    ELSE "UP"

\* C11: for every smoothed angle in [0, 360) update_direction sets the label
\* to RIGHT on (-45, 45], DOWN on (45, 135], LEFT on (135, 225] and UP
\* otherwise, the boundary angles 45, 135, 225 and 315 included.
C11_CompassSectors ==
    (pipeline = "direction" /\ Returned) =>
        current_direction = CompassLabel(current_angle[1], current_angle[2])

\* the raw centroids of the successful detections of the run, in order
Successes == SelectSeq(observed, LAMBDA x : x # NoCenter)

\* the last n entries of a sequence (all of them when it is shorter)
LastN(s, n) == SubSeq(s, IF Len(s) > n THEN Len(s) - n + 1 ELSE 1, Len(s))

\* m is the arithmetic mean of coordinate j of the points of h, rounded down
IsFloorMean(m, h, j) ==
    /\ m * Len(h) <= SumSeq([i \in 1..Len(h) |-> h[i][j]])
    /\ SumSeq([i \in 1..Len(h) |-> h[i][j]]) < (m + 1) * Len(h)

\* C12: the center returned by the n-th successful detection is, per
\* coordinate, the mean rounded down of the raw centroids of the last
\* min(n, max_positions) successful detections, which the history holds in
\* order of arrival; the history never holds more than max_positions entries.
C12_SmoothedCenter ==
    UsesSimpleDetector =>
        /\ Len(prev_positions) <= max_positions
        /\ prev_positions = LastN(Successes, max_positions)
        /\ (Returned /\ Detected) =>
              /\ IsFloorMean(result.center[1], LastN(Successes, max_positions), 1)
              /\ IsFloorMean(result.center[2], LastN(Successes, max_positions), 2)

\* more successful detections than the history holds, of differing
\* centroids whose mean is not a whole number
C12_Witness ==
    /\ pipeline = "simple"
    /\ Returned /\ Detected
    /\ Len(Successes) > max_positions
    /\ Successes[Len(Successes)] # Successes[Len(Successes) - 1]
    /\ result.center \notin {Successes[i] : i \in 1..Len(Successes)}

\* C13: once the last max_positions successful detections all had the raw
\* centroid c, the returned center is c, whatever the history held before,
\* and it stays c for every further detection of c.
C13_Converges ==
    (UsesSimpleDetector /\ Returned /\ Detected
        /\ Len(Successes) >= max_positions
        /\ \A i \in 1..max_positions :
              LastN(Successes, max_positions)[i] = Successes[Len(Successes)]) =>
        result.center = Successes[Len(Successes)]

\* a different centroid first, then max_positions detections of one centroid
C13_Witness ==
    /\ pipeline = "simple"
    /\ Returned /\ Detected
    /\ Len(Successes) = max_positions + 1
    /\ Successes[1] # Successes[2]
    /\ \A i \in 2..Len(Successes) : Successes[i] = Successes[2]
    /\ result.center = Successes[2]

\* C14: the returned center depends only on the raw centroids observed
\* during the max_positions most recent process_frame calls: it is their
\* mean rounded down, whatever mix of hand and no-hand frames the run holds.
C14_BoundedLag ==
    (UsesSimpleDetector /\ Returned /\ Detected) =>
        LET recent == SelectSeq(LastN(observed, max_positions),
                                LAMBDA x : x # NoCenter)
        IN  /\ IsFloorMean(result.center[1], recent, 1)
            /\ IsFloorMean(result.center[2], recent, 2)

\* the area filter of the detector the pipeline runs
PassesFilter(i) ==
    IF pipeline = "orientation"
    THEN lastFrame.blob[i].area >= orient_min_area
    ELSE lastFrame.blob[i].area > min_contour_area

\* C15: the selected contour is a contour of the mask that passes the area
\* filter, none that passes the filter is larger, and every one that comes
\* before it in scan order is smaller.
C15_FirstOfLargest ==
    (pipeline \in {"simple", "orientation"} /\ Returned /\ Detected) =>
        /\ result.contour \in LastMask
        /\ PassesFilter(result.contour)
        /\ \A j \in LastMask :
              PassesFilter(j) =>
                 /\ lastFrame.blob[j].area <= lastFrame.blob[result.contour].area
                 /\ j < result.contour =>
                       lastFrame.blob[j].area < lastFrame.blob[result.contour].area

\* two contours of the largest area with different centroids, a smaller one
\* before them: the first of the two was selected
C15_Witness ==
    /\ pipeline = "orientation"
    /\ Returned /\ Detected
    /\ result.contour = 2
    /\ Len(lastFrame.blob) = 3
    /\ lastFrame.blob[3].area = lastFrame.blob[2].area
    /\ RawCentroid(lastFrame.blob[3]) # RawCentroid(lastFrame.blob[2])
    /\ result.center = RawCentroid(lastFrame.blob[2])

\* the contour the claim's selection rule picks: the first of the largest
\* contours of the mask that pass the area filter
Selected(i) ==
    /\ i \in LastMask
    /\ PassesFilter(i)
    /\ \A j \in LastMask :
          PassesFilter(j) =>
             /\ lastFrame.blob[j].area <= lastFrame.blob[i].area
             /\ j < i => lastFrame.blob[j].area < lastFrame.blob[i].area

\* C16: every process_frame call on a frame returns a consistent result:
\* center is null exactly when contour is null; when no contour passes the
\* area filter, or the selected contour has M00 = 0, the result is all null
\* and is returned, not raised; a direction never comes with a null center.
C16_ConsistentResult ==
    (pipeline \in {"simple", "orientation"} /\ calls > 0 /\ lastFrame.img) =>
        /\ Returned
        /\ result.center = NoCenter <=> result.contour = NoContour
        /\ (\A i \in LastMask : ~PassesFilter(i)) => result = NoResult
        /\ (\E i \in LastMask : Selected(i) /\ lastFrame.blob[i].m00 = 0) =>
              result = NoResult
        /\ result.direction # NoDirection => result.center # NoCenter

\* after an earlier detection, a frame whose selected contour has M00 = 0
\* came back all null
C16_Witness ==
    /\ pipeline = "orientation"
    /\ Returned
    /\ prev_orientations # <<>>
    /\ \E i \in LastMask : Selected(i) /\ lastFrame.blob[i].m00 = 0
    /\ result = NoResult

\* C18: detect_gesture sets unknown when the hull has fewer than 3 points or
\* the convexity-defect computation fails, and closed_fist when the
\* computation succeeds and returns None; the defects are not counted then.
C18_NoDefectsLabels ==
    (pipeline = "gesture" /\ outcome # "idle") =>
        /\ Returned
        /\ lastFrame.blob[1].hullN < 3 => current_gesture = "unknown"
        /\ (lastFrame.blob[1].hullN >= 3 /\ lastFrame.blob[1].defStatus = "error")
              => current_gesture = "unknown"
        /\ (lastFrame.blob[1].hullN >= 3 /\ lastFrame.blob[1].defStatus = "none")
              => current_gesture = "closed_fist"

\* a two-point hull on a contour whose defects would count as one finger gap
C18_Witness ==
    /\ pipeline = "gesture"
    /\ Returned
    /\ lastFrame.blob[1].hullN < 3
    /\ lastFrame.blob[1].defStatus = "ok"
    /\ GapCount(lastFrame.blob[1]) = 1
    /\ current_gesture = "unknown"

\* C19: a region is foreground in the segmenter mask of SimpleHandDetector
\* exactly when it is in the skin mask, and in the motion mask if one is
\* available, and where the exclusion mask is 255 if one is given; an
\* excluded region is never foreground.
C19_MaskCombination ==
    (pipeline = "simple" /\ Returned) =>
        \A i \in 1..Len(lastFrame.blob) :
            /\ i \in seg.mask <=>
                  /\ i \in lastFrame.skin
                  /\ ~seg.usedMotion \/ i \in lastFrame.motion
                  /\ ~lastFrame.face.given \/ i \in lastFrame.face.on
            /\ (lastFrame.face.given /\ i \notin lastFrame.face.on)
                  => i \notin seg.mask

\* with the motion mask in use, a moving skin-coloured region that the
\* exclusion mask covers is left out and another one is kept
C19_Witness ==
    /\ pipeline = "simple"
    /\ Returned
    /\ seg.usedMotion
    /\ lastFrame.face.given
    /\ \E i \in lastFrame.skin \cap lastFrame.motion :
          i \notin lastFrame.face.on /\ i \notin seg.mask
    /\ seg.mask # {}

\* a defect row whose far point coincides with its start or its end point
IsDegenerate(c, d) == c.pts[d.f] = c.pts[d.s] \/ c.pts[d.f] = c.pts[d.e]

\* the far-vertex angle of a non-degenerate defect is at most a right angle:
\* b^2 + c^2 >= a^2
RightOrSharper(c, d) ==
    Dist2(c.pts[d.f], c.pts[d.s]) + Dist2(c.pts[d.e], c.pts[d.f])
        >= Dist2(c.pts[d.e], c.pts[d.s])

\* C20: a degenerate defect is never treated as a finger gap: the classifier
\* does not count it and the fingertip estimator adds neither of its
\* endpoints to the candidates (the candidate list of a contour with that
\* one defect is not made of its endpoints); a non-degenerate defect is
\* counted by the classifier exactly when its far-vertex angle is at most a
\* right angle.
C20_DegenerateDefects ==
    (pipeline = "finger" /\ Returned /\ Detected
        /\ fp.stratA \in {"dir", "nodir"}
        /\ Len(lastFrame.blob[result.contour].defects) = 1) =>
        LET c == lastFrame.blob[result.contour]
            d == c.defects[1]
        IN  IF IsDegenerate(c, d)
            THEN /\ current_gesture = "closed_fist"
                 /\ fp.cands \notin {<<c.pts[d.s]>>, <<c.pts[d.e]>>,
                                     <<c.pts[d.s], c.pts[d.e]>>}
            ELSE current_gesture = "pointing" <=> RightOrSharper(c, d)

\* the raw angles of the successful orientation computations of the run
RecentAngles ==
    [i \in 1..Len(LastN(Successes, max_orientations)) |->
        LastN(Successes, max_orientations)[i][1]]

\* C21: prev_orientations holds at most max_orientations angles, each in
\* [0, 360): those of the most recent successful orientation computations,
\* in order; current_angle is their arithmetic mean and lies in [0, 360).
C21_AngleHistory ==
    pipeline = "orientation" =>
        /\ Len(prev_orientations) <= max_orientations
        /\ \A i \in 1..Len(prev_orientations) :
              0 <= prev_orientations[i] /\ prev_orientations[i] < 360
        /\ prev_orientations = RecentAngles
        /\ prev_orientations # <<>> =>
              current_angle[1] * Len(prev_orientations)
                  = SumSeq(prev_orientations) * current_angle[2]
        /\ 0 <= current_angle[1] /\ current_angle[1] < 360 * current_angle[2]

\* more orientation computations than the history holds, with rotated
\* rectangles of negative angle and of width below height among them
C21_Witness ==
    /\ pipeline = "orientation"
    /\ Returned /\ Detected
    /\ Len(Successes) > max_orientations
    /\ Successes[1] # <<prev_orientations[1]>>
    /\ \E i \in 1..Len(prev_orientations) : prev_orientations[i] > 270
    /\ \E i \in 1..Len(prev_orientations) :
          prev_orientations[i] > 90 /\ prev_orientations[i] < 180

\* C27: whenever every raw angle in prev_orientations maps to one compass
\* label, the smoothed current_angle maps to that label.
C27_SmoothingKeepsLabel ==
    (pipeline = "orientation" /\ prev_orientations # <<>>
        /\ \A i \in 1..Len(prev_orientations) :
              DirectionName(prev_orientations[i], 1)
                  = DirectionName(prev_orientations[1], 1)) =>
        /\ current_direction = DirectionName(prev_orientations[1], 1)
        /\ DirectionName(current_angle[1], current_angle[2])
              = DirectionName(prev_orientations[1], 1)

\* C28: a process_frame call of the orientation detector that returns no
\* hand leaves prev_orientations, current_angle and current_direction
\* unchanged, and the direction is "unknown" exactly before the first
\* successful orientation computation.
C28_NoHandKeepsDirection ==
    /\ [](pipeline = "orientation" =>
             (current_direction = "unknown" <=> Successes = <<>>))
    /\ [][(pipeline = "orientation" /\ result'.center = NoCenter)
             => UNCHANGED orientVars]_vars

\* a frame without a hand after a detection: the label of the detection stays
C28_Witness ==
    /\ pipeline = "orientation"
    /\ Returned /\ NoHand
    /\ lastFrame.img
    /\ Successes # <<>>
    /\ current_direction \in {"RIGHT", "DOWN", "LEFT", "UP"}

\* C24: every process_frame call of SimpleHandDetector applies its frame to
\* the background subtractor exactly once, during the learning phase and
\* after it.
C24_AppliedOnce ==
    (pipeline = "simple" /\ Returned) => seg.applies = 1

\* C25: 0 <= frame_count <= frames_to_learn; has_bg_model is true exactly
\* when frame_count = frames_to_learn; once true it never becomes false.
C25_LearningState ==
    /\ [](pipeline = "simple" =>
             /\ 0 <= frame_count /\ frame_count <= frames_to_learn
             /\ has_bg_model <=> frame_count = frames_to_learn)
    /\ [][has_bg_model => has_bg_model']_vars

\* calls beyond the learning phase: the count stays at frames_to_learn
C25_Witness ==
    /\ pipeline = "simple"
    /\ calls > frames_to_learn + 1
    /\ frame_count = frames_to_learn
    /\ has_bg_model

\* C26: a process_frame call of SimpleHandDetector that returns no hand
\* leaves prev_positions and current_gesture unchanged; the history changes
\* only in a call that returns a detection.
C26_NoHandKeepsState ==
    /\ [][(UsesSimpleDetector /\ outcome' = "returned" /\ result'.center = NoCenter)
             => UNCHANGED <<prev_positions, current_gesture>>]_vars
    /\ [][(UsesSimpleDetector /\ prev_positions' # prev_positions)
             => (outcome' = "returned" /\ result'.center # NoCenter)]_vars

\* after a detection of a hand with a known gesture, a selected contour
\* with M00 = 0 gave no hand and the history and the label are still there
C26_Witness ==
    /\ pipeline = "simple"
    /\ Returned /\ NoHand
    /\ \E i \in seg.mask :
          lastFrame.blob[i].area > min_contour_area /\ lastFrame.blob[i].m00 = 0
    /\ prev_positions # <<>>
    /\ current_gesture # "unknown"

\* the fingertip a direction of Strategy A points at from the returned center
TipOf(center, direction) == Pt(center[1] + direction.a, center[2] + direction.b)

\* C22: the fingertip of Strategy A is a candidate at maximal distance from
\* the hand center, the first such candidate on ties; if every candidate is
\* at distance zero from the center Strategy A yields no direction.
C22_FarthestCandidate ==
    (pipeline = "finger" /\ Returned /\ Detected /\ fp.stratA \in {"dir", "nodir"}) =>
        IF \A j \in 1..Len(fp.cands) : Dist2(fp.cands[j], result.center) = 0
        THEN fp.stratA = "nodir"
        ELSE /\ fp.stratA = "dir"
             /\ fp.direction.kind = "vec"
             /\ \E i \in 1..Len(fp.cands) :
                   /\ fp.cands[i] = TipOf(result.center, fp.direction)
                   /\ \A j \in 1..Len(fp.cands) :
                         /\ Dist2(fp.cands[j], result.center)
                               <= Dist2(fp.cands[i], result.center)
                         /\ j < i => Dist2(fp.cands[j], result.center)
                                        < Dist2(fp.cands[i], result.center)

\* two candidates at the same, largest distance: the earlier one is the tip
C22_Witness ==
    /\ pipeline = "finger"
    /\ Returned /\ Detected
    /\ fp.stratA = "dir"
    /\ \E i, j \in 1..Len(fp.cands) :
          /\ i < j
          /\ fp.cands[i] # fp.cands[j]
          /\ Dist2(fp.cands[i], result.center) = Dist2(fp.cands[j], result.center)
          /\ fp.cands[i] = TipOf(result.center, fp.direction)
          /\ \A k \in 1..Len(fp.cands) :
                Dist2(fp.cands[k], result.center) <= Dist2(fp.cands[i], result.center)

\* an OpenCV call of the direction computation raised on contour c
DirectionFails(c, obs) ==
    \/ pipeline = "orientation" /\ ~c.rect.ok
    \/ pipeline = "finger" /\ obs.stratA = "error"
    \/ pipeline = "finger" /\ obs.triedB /\ ~c.rect.ok

\* the last call selected a contour and its direction computation raised
DirectionFailed ==
    /\ outcome # "idle"
    /\ lastFrame.img
    /\ result.contour # NoContour
    /\ DirectionFails(lastFrame.blob[result.contour], fp)

\* C23: a frame whose direction computation raises is still returned with
\* its center and contour and a null direction, the detector keeps the
\* gesture and the position of that frame, the orientation history is left
\* alone, and a later frame with a hand and no failure gets its direction.
C23_OnlyDirectionLost ==
    /\ [](DirectionFailed =>
             /\ Returned
             /\ Detected
             /\ result.direction = NoDirection
             /\ pipeline = "finger" =>
                   /\ current_gesture = FreshGesture(lastFrame, result.contour)
                   /\ result.center = AveragePosition(prev_positions)
                   /\ observed[Len(observed)]
                         = RawCentroid(lastFrame.blob[result.contour]))
    /\ [][DirectionFailed' => UNCHANGED orientVars]_vars
    /\ [][(DirectionFailed /\ Detected' /\ ~DirectionFailed')
             => (Returned' /\ result'.direction # NoDirection)]_vars

\* the rotated bounding box of a fist failed in either pipeline, after an
\* earlier frame had given a direction
C23_Witness ==
    /\ DirectionFailed
    /\ calls >= 2
    /\ ~lastFrame.blob[result.contour].rect.ok
    /\ result.center # NoCenter
    /\ result.direction = NoDirection
    /\ \/ pipeline = "finger" /\ current_gesture = "closed_fist"
                              /\ Len(prev_positions) >= 2
       \/ pipeline = "orientation" /\ prev_orientations # <<>>

\* C29: a jump starts only on a detected hand with gesture closed_fist while
\* is_jumping is false and jump_cooldown <= 0; jump_cooldown is never
\* negative; at least 20 detect_hand calls lie between the call that starts
\* a jump and the call that started the previous jump.
C29_JumpCooldown ==
    /\ [](game.jump_cooldown >= 0)
    /\ []((game.jumped /\ game.gap # -1) => game.gap - 1 >= jump_cooldown_frames)
    /\ [][(calls' = calls + 1 /\ game'.jumped) =>
             /\ Detected'
             /\ current_gesture' = "closed_fist"
             /\ ~game.is_jumping
             /\ game.jump_cooldown <= 0]_vars

\* the fields the claim names
Board(g) == <<g.score, g.ball_pos, g.ball_velocity, g.targets, g.obstacles>>

\* the state the restart sets up
FreshBoard(g) ==
    /\ g.game_state = "playing"
    /\ g.score = 0
    /\ g.ball_pos = Centre
    /\ g.ball_velocity = <<0, 0>>
    /\ g.ball_speed = 5
    /\ Len(g.targets) = 5
    /\ Len(g.obstacles) = 3

\* C30: from the frame in which game_state becomes game_over, a frame
\* without SPACE runs no update and leaves score, ball, targets and
\* obstacles as they are; a frame with SPACE in game_over, and no other
\* frame, restarts the game, and leaves it playing with score 0, the ball at
\* the centre with zero velocity, ball_speed 5, five targets and three
\* obstacles.
C30_GameOverFrozen ==
    /\ [][(game.game_state = "game_over" /\ ~game'.spaced)
             => (game'.game_state = "game_over" /\ ~game'.updated
                 /\ Board(game') = Board(game) /\ calls' = calls
                 /\ UNCHANGED orientVars)]_vars
    /\ [][game'.restarted => (game.game_state = "game_over" /\ game'.spaced)]_vars
    /\ [][(game.game_state = "game_over" /\ game'.spaced)
             => (game'.restarted /\ FreshBoard(game'))]_vars

=============================================================================
